---- MODULE Spec2Model ----
(***************************************************************************)
(* Model of the NearYou proximity pipeline                                  *)
(* (src/src/data_pipeline/operators.py, src/src/data_pipeline/bytewax_flow.py).*)
(*                                                                         *)
(* Conventions                                                             *)
(*  - A Python dict is a TLA+ function whose DOMAIN is the set of keys     *)
(*    present; Get(d, k, default) is d.get(k, default).                    *)
(*  - A text (str) is a sequence of tokens.  The tokens are chosen so that *)
(*    every substring the code searches for or replaces ("%", "sconto",    *)
(*    "[", "]", "{name}", a run of digits, a blank) is one token, hence    *)
(*    str.replace, re.sub, re.search, str.strip and the `in` operator act  *)
(*    on token boundaries.  "" is <<>>.                                    *)
(*  - A probability is an integer number of millionths (0.3 is 300000),    *)
(*    so that the products of the code are exact.                          *)
(***************************************************************************)
EXTENDS Integers, Sequences, FiniteSets, TLC

-----------------------------------------------------------------------------
(* Bounds of the model *)

\* number of position events the ingestion boundary delivers
MaxEvents == 2

\* number of direct calls of _get_user_profile
MaxLookups == 3

\* number of attach calls made on the Subject
MaxAttaches == 5

\* number of direct calls made on the dedup cache
MaxCacheCalls == 4

-----------------------------------------------------------------------------
(* Program constants *)

\* MAX_POI_DISTANCE = 200  (metres)
MAX_POI_DISTANCE == 200

\* VISIT_PROBABILITY_BASE = 0.3, in millionths
VISIT_PROBABILITY_BASE == 300000

\* probability = min(probability, 0.9), in millionths
PROBABILITY_CAP == 900000

\* user.get("age", 30)
DEFAULT_AGE == 30

-----------------------------------------------------------------------------
(* Generic helpers *)

Min(a, b) == IF a < b THEN a ELSE b

\* dict.get(k, default)
Get(d, k, default) == IF k \in DOMAIN d THEN d[k] ELSE default

\* d[k] = v  (dict item assignment)
Put(d, k, v) == [x \in (DOMAIN d) \cup {k} |-> IF x = k THEN v ELSE d[x]]

\* an update that replaces the dict by the other one
Update_Replacing(d, other) == other

\* dict.update(other)
Update(d, other) ==
  [x \in (DOMAIN d) \cup (DOMAIN other) |-> IF x \in DOMAIN other THEN other[x] ELSE d[x]]

\* the empty dict
EmptyDict == [x \in {} |-> 0]

\* the element of a one-element set; Only({e(x) : x \in {v}}) is e(v) with v
\* evaluated once (a local assignment `x = v` followed by `return e(x)`)
Only(S) == CHOOSE x \in S : TRUE

-----------------------------------------------------------------------------
(* Text helpers *)

\* str.lower() on one token
LowerTok(t) ==
  CASE t = "Sconto" -> "sconto"
    [] t = "OFFERTA" -> "offerta"
    [] t = "Bar" -> "bar"
    [] OTHER -> t

\* a run of decimal digits (\d+) and its int() value
DigitTokens == {"5", "20", "40", "100"}

IntOf(t) ==
  CASE t = "5" -> 5
    [] t = "20" -> 20
    [] t = "40" -> 40
    [] t = "100" -> 100
    [] OTHER -> 0

\* `not message or not message.strip()`
IsBlank(message) == \A i \in 1..Len(message) : message[i] = " "

\* `sub in message` for a one-token substring
Contains(message, tok) == \E i \in 1..Len(message) : message[i] = tok

\* `sub in message.lower()`
ContainsLower(message, tok) == \E i \in 1..Len(message) : LowerTok(message[i]) = tok

\* str.replace(pat, rep): leftmost, non-overlapping, the result is not rescanned
RECURSIVE Replace(_, _, _)
Replace(s, pat, rep) ==
  IF Len(s) < Len(pat) \/ s = <<>> THEN s
  ELSE IF SubSeq(s, 1, Len(pat)) = pat
       THEN rep \o Replace(SubSeq(s, Len(pat) + 1, Len(s)), pat, rep)
       ELSE <<Head(s)>> \o Replace(Tail(s), pat, rep)

\* the "]" that closes a match of \[.*?\] starting at s[1] = "[": the nearest
\* one, with no line break before it ("." does not match "\n")
ClosingBrackets(s) ==
  {j \in 2..Len(s) : s[j] = "]" /\ \A k \in 2..(j - 1) : s[k] \notin {"]", "\n"}}

\* re.sub(r'\[.*?\]', rep, s): each "[" up to the nearest following "]" of its
\* line; the replacement is not rescanned
RECURSIVE SubBrackets(_, _)
SubBrackets(s, rep) ==
  IF s = <<>> THEN s
  ELSE IF Head(s) = "[" /\ ClosingBrackets(s) # {}
       THEN LET j == CHOOSE j \in ClosingBrackets(s) : TRUE
            IN  rep \o SubBrackets(SubSeq(s, j + 1, Len(s)), rep)
       ELSE <<Head(s)>> \o SubBrackets(Tail(s), rep)

\* re.search(r'(\d+)%', message): positions of a digit run directly before "%"
DiscountPositions(message) ==
  {i \in 1..(Len(message) - 1) : message[i] \in DigitTokens /\ message[i + 1] = "%"}

-----------------------------------------------------------------------------
(* Visit Simulation Engine: _should_simulate_visit *)

\* "%" in message or "sconto" in message.lower() or "offerta" in message.lower()
HasDiscountIndicator(message) ==
  Contains(message, "%") \/ ContainsLower(message, "sconto") \/ ContainsLower(message, "offerta")

\* probability += 0.3, then += min(discount / 100, 0.4) when (\d+)% matches
DiscountBonus(message) ==
  IF ~HasDiscountIndicator(message) THEN 0
  ELSE 300000 +
       (IF DiscountPositions(message) = {} THEN 0
        ELSE LET i == CHOOSE i \in DiscountPositions(message) :
                          \A k \in DiscountPositions(message) : i <= k
             IN  Min(IntOf(message[i]) * 10000, 400000))

\* category_multipliers.get(category, 1.0), in tenths
CategoryMultiplier(category) ==
  CASE category = "ristorante" -> 12
    [] category = "bar" -> 13
    [] category = "gelateria" -> 14
    [] category = "abbigliamento" -> 11
    [] category = "supermercato" -> 9
    [] category = "farmacia" -> 7
    [] OTHER -> 10

\* the age band adjustment, in tenths
AgeMultiplier(category, age) ==
  IF category \in {"bar", "gelateria"} /\ age < 35 THEN 12
  ELSE IF category \in {"farmacia"} /\ age > 50 THEN 13
  ELSE 10

\* shop.get("category", "").lower()
CategoryOf(shop) == LowerTok(Get(shop, "category", ""))

\* the probability before the cap
RawProbability(user, shop, message) ==
  LET category == CategoryOf(shop)
      age == Get(user, "age", DEFAULT_AGE)
      p0 == VISIT_PROBABILITY_BASE + DiscountBonus(message)
      p1 == (p0 * CategoryMultiplier(category)) \div 10
  IN  (p1 * AgeMultiplier(category, age)) \div 10

\* a probability that is never capped
CapProbability_Missing(p) == p

\* probability = min(probability, 0.9)
CapProbability(p) == Min(p, PROBABILITY_CAP)

\* the probability compared with random.random()
VisitProbability(user, shop, message) == CapProbability(RawProbability(user, shop, message))

\* the f-string of logger.debug reads user['user_id'] and shop['shop_name']
SimulateRaises(user, shop, message) ==
  ~IsBlank(message) /\ ("user_id" \notin DOMAIN user \/ "shop_name" \notin DOMAIN shop)

\* a decision that tests only `not message`, so a blank text is drawn for
should_simulate_visit_NoStrip(user, shop, message, draw) ==
  IF message = <<>> THEN FALSE
  ELSE draw < VisitProbability(user, shop, message)

\* _should_simulate_visit(user, shop, message) with random.random() = draw / 10^6
should_simulate_visit(user, shop, message, draw) ==
  IF IsBlank(message) THEN FALSE
  ELSE draw < VisitProbability(user, shop, message)

-----------------------------------------------------------------------------
(* Event Metrics Bus: Subject.notify, MetricsObserver, PerformanceObserver *)

\* MetricsObserver.__init__
InitialMetrics ==
  [events_processed |-> 0, messages_generated |-> 0, visits_simulated |-> 0,
   errors |-> 0, shops_found |-> 0, cache_hits |-> 0, cache_misses |-> 0]

\* MetricsObserver.update: the event type -> the counter it increments
CounterOf(event_type) ==
  CASE event_type = "event_processed" -> "events_processed"
    [] event_type = "message_generated" -> "messages_generated"
    [] event_type = "visit_simulated" -> "visits_simulated"
    [] event_type = "error" -> "errors"
    [] event_type = "shop_found" -> "shops_found"
    [] event_type = "cache_hit" -> "cache_hits"
    [] event_type = "cache_miss" -> "cache_misses"
    [] OTHER -> "none"

MetricsUpdate(metrics, event_type) ==
  IF CounterOf(event_type) \in DOMAIN metrics
  THEN [metrics EXCEPT ![CounterOf(event_type)] = @ + 1]
  ELSE metrics

\* PerformanceObserver.update on [start_times, processing_times]; the
\* durations themselves are not modelled, only how many are kept (<= 1000)
PerformanceUpdate(perf, event_type, data) ==
  LET event_id == Get(data, "event_id", "unknown")
  IN  IF event_type = "processing_start"
      THEN [perf EXCEPT !.start_times = @ \cup {event_id}]
      ELSE IF event_type = "processing_end" /\ event_id \in perf.start_times
           THEN [start_times |-> perf.start_times \ {event_id},
                 processing_times |-> Min(perf.processing_times + 1, 1000)]
           ELSE perf

\* Subject.notify with the two observers DatabaseConnections.__init__ attaches
notify(conn, event_type, data) ==
  [conn EXCEPT !.metrics = MetricsUpdate(@, event_type),
               !.perf = PerformanceUpdate(@, event_type, data)]

\* `observer in self._observers`
Registered(observers, observer) == \E i \in 1..Len(observers) : observers[i] = observer

\* an attach that puts the new observer in front of the list
attach_Prepending(observers, observer) ==
  IF Registered(observers, observer) THEN observers ELSE <<observer>> \o observers

\* Subject.attach
attach(observers, observer) ==
  IF Registered(observers, observer) THEN observers ELSE Append(observers, observer)

\* Subject.detach: list.remove takes out the first occurrence
RECURSIVE detach(_, _)
detach(observers, observer) ==
  IF observers = <<>> THEN observers
  ELSE IF Head(observers) = observer THEN Tail(observers)
       ELSE <<Head(observers)>> \o detach(Tail(observers), observer)

\* a notify without the try/except around observer.update: the first
\* exception leaves the loop and notify
RECURSIVE Subject_notify_Unprotected(_, _, _)
Subject_notify_Unprotected(observers, failing, event_type) ==
  IF observers = <<>> THEN <<>>
  ELSE <<[observer |-> Head(observers), event_type |-> event_type,
          raised |-> Head(observers) \in failing, caught |-> FALSE]>>
       \o (IF Head(observers) \in failing THEN <<>>
           ELSE Subject_notify_Unprotected(Tail(observers), failing, event_type))

\* Subject.notify on any list of observers: the update calls made before
\* notify returns, in the order made; `failing` are the observers whose update
\* raises. `except Exception` catches what update raised and logs it, and the
\* for loop goes on to the next observer only when nothing escaped the try.
RECURSIVE Subject_notify(_, _, _)
Subject_notify(observers, failing, event_type) ==
  IF observers = <<>> THEN <<>>
  ELSE LET raised == Head(observers) \in failing
            caught == raised
            call == [observer |-> Head(observers), event_type |-> event_type,
                     raised |-> raised, caught |-> caught]
       IN  IF raised /\ ~caught THEN <<call>>
           ELSE <<call>> \o Subject_notify(Tail(observers), failing, event_type)

\* notify returns to its caller when no exception of an update call escaped it
NotifyReturned(deliveries) ==
  \A i \in 1..Len(deliveries) : deliveries[i].raised => deliveries[i].caught

-----------------------------------------------------------------------------
(* Connection Registry and dedup cache: DatabaseConnections *)

\* DatabaseConnections.__init__
InitialConn ==
  [message_cache |-> EmptyDict,
   metrics |-> InitialMetrics,
   perf |-> [start_times |-> {}, processing_times |-> 0]]

\* str(n) of an integer, one character per element
RECURSIVE Str(_)
Str(n) ==
  IF n < 0 THEN <<"-">> \o Str(0 - n)
  ELSE IF n < 10 THEN <<<<"0", "1", "2", "3", "4", "5", "6", "7", "8", "9">>[n + 1]>>
  ELSE Str(n \div 10) \o Str(n % 10)

\* a cache key that puts nothing between the two ids
get_cache_key_Unseparated(user_id, shop_id) == Str(user_id) \o Str(shop_id)

\* f"{user_id}:{shop_id}"
get_cache_key(user_id, shop_id) == Str(user_id) \o <<":">> \o Str(shop_id)

\* DatabaseConnections.get_cached_message: [found, value, conn]
get_cached_message(conn, user_id, shop_id) ==
  LET cache_key == get_cache_key(user_id, shop_id)
      data == [user_id |-> user_id, shop_id |-> shop_id]
  IN  IF cache_key \in DOMAIN conn.message_cache
      THEN [found |-> TRUE, value |-> conn.message_cache[cache_key],
            conn |-> notify(conn, "cache_hit", data)]
      ELSE [found |-> FALSE, value |-> <<>>,
            conn |-> notify(conn, "cache_miss", data)]

\* a cache_message that stores nothing
cache_message_Dropped(conn, user_id, shop_id, message) == conn

\* DatabaseConnections.cache_message
cache_message(conn, user_id, shop_id, message) ==
  [conn EXCEPT !.message_cache = Put(@, get_cache_key(user_id, shop_id), message)]

-----------------------------------------------------------------------------
(* Notification Generator: _generate_message *)

\* the four str.replace calls and the re.sub of the placeholder fix
Sanitize(message, shop_name) ==
  LET m1 == Replace(message, <<"[", "Nome del Negozio">>, shop_name)
      m2 == Replace(m1, <<"Nome del Negozio">>, shop_name)
      m3 == Replace(m2, <<"{shop_name}">>, shop_name)
      m4 == Replace(m3, <<"{name}">>, shop_name)
  IN  SubBrackets(m4, shop_name)

\* a generator that never takes the text from the cache
CachedUsable_Never(lookup) == FALSE

\* `if cached_message:` -- the truth value of the looked-up entry
CachedUsable(lookup) == lookup.found /\ lookup.value # <<>>

\* the keys the payload reads with user[...] and shop[...]
PayloadReadable(user, shop) ==
  /\ {"age", "profession", "interests"} \subseteq DOMAIN user
  /\ {"shop_name", "category", "distance", "shop_id"} \subseteq DOMAIN shop

\* does the call reach client.post(...)
ClientInvoked(conn, user, shop) ==
  /\ {"user_id"} \subseteq DOMAIN user /\ {"shop_id"} \subseteq DOMAIN shop
  /\ ~CachedUsable(get_cached_message(conn, user["user_id"], shop["shop_id"]))
  /\ PayloadReadable(user, shop)

\* the branch taken on a response with status 200 and a readable body
OnSuccess(conn, user, shop, resp) ==
  LET message == Sanitize(resp.message, shop["shop_name"])
      cached == cache_message(conn, user["user_id"], shop["shop_id"], message)
  IN  [message |-> message,
       conn |-> notify(cached, "message_generated",
                       [user_id |-> user["user_id"], shop_id |-> shop["shop_id"]])]

\* a failure branch that also caches the empty text under the key
OnFailure_Caching(conn, user, shop) ==
  [message |-> <<>>,
   conn |-> notify(cache_message(conn, user["user_id"], shop["shop_id"], <<>>),
                   "error", [function |-> "_generate_message"])]

\* a failure branch that returns "" without notifying the observers
OnFailure_Silent(conn, user, shop) == [message |-> <<>>, conn |-> conn]

\* the branches that log, notify "error" and return ""
OnFailure(conn, user, shop) ==
  [message |-> <<>>, conn |-> notify(conn, "error", [function |-> "_generate_message"])]

\* _generate_message(conn, user, shop) when the generation service answers resp:
\* [message, conn]
generate_message(conn, user, shop, resp) ==
  IF ~({"user_id"} \subseteq DOMAIN user /\ {"shop_id"} \subseteq DOMAIN shop)
  THEN OnFailure(conn, user, shop)
  ELSE Only({
         IF CachedUsable(lookup)
         THEN [message |-> lookup.value, conn |-> lookup.conn]
         ELSE IF ~PayloadReadable(user, shop) THEN OnFailure(lookup.conn, user, shop)
         ELSE IF resp.kind = "ok" /\ resp.status = 200
              THEN OnSuccess(lookup.conn, user, shop, resp)
              ELSE OnFailure(lookup.conn, user, shop)
         : lookup \in {get_cached_message(conn, user["user_id"], shop["shop_id"])} })

-----------------------------------------------------------------------------
(* Nearest-POI Resolver and Profile Lookup *)

\* _find_nearest_shop when the spatial query answers res
\* (res.kind: "found" a row, "empty" no row, "error" the query raised): [shop, conn]
find_nearest_shop(conn, res) ==
  IF res.kind = "found"
  THEN [shop |-> res.shop, conn |-> notify(conn, "shop_found", res.shop)]
  ELSE IF res.kind = "empty"
       THEN [shop |-> EmptyDict, conn |-> conn]
       ELSE [shop |-> EmptyDict,
             conn |-> notify(conn, "error", [function |-> "_find_nearest_shop"])]

\* _get_user_profile when the users table answers res
\* (res.kind: "found" a row, "missing" no row, "error" the query raised): [profile, conn]
get_user_profile(conn, user_id, res) ==
  IF res.kind = "found"
  THEN [profile |-> res.profile, conn |-> conn]
  ELSE IF res.kind = "missing"
       THEN [profile |-> EmptyDict, conn |-> conn]
       ELSE [profile |-> EmptyDict,
             conn |-> notify(conn, "error", [function |-> "_get_user_profile"])]

-----------------------------------------------------------------------------
(* Visit recorder: _create_simulated_visit *)

\* VISIT_DURATION_RANGES.get(category, (10, 30))
DurationRange(category) ==
  CASE category = "ristorante" -> <<15, 45>>
    [] category = "bar" -> <<5, 20>>
    [] category = "supermercato" -> <<10, 30>>
    [] category = "abbigliamento" -> <<15, 40>>
    [] category = "elettronica" -> <<20, 60>>
    [] category = "farmacia" -> <<3, 10>>
    [] category = "libreria" -> <<10, 30>>
    [] category = "gelateria" -> <<5, 15>>
    [] category = "parrucchiere" -> <<30, 90>>
    [] category = "palestra" -> <<45, 120>>
    [] OTHER -> <<10, 30>>

\* visit_start.replace(minute=visit_start.minute + duration_minutes) raises
\* ValueError unless the new minute is in 0..59
EndMinuteValid(minute, duration_minutes) == minute + duration_minutes <= 59

\* the row of user_visits, projected on the columns visit_id, user_id, shop_id
VisitRow(user, shop, rnd) ==
  [visit_id |-> rnd.visit_id, user_id |-> user["user_id"], shop_id |-> shop["shop_id"]]

\* does the try block reach ch.execute and does the insert succeed
VisitWritten(user, shop, rnd) ==
  /\ EndMinuteValid(rnd.minute, rnd.duration)
  /\ "user_id" \in DOMAIN user /\ "shop_id" \in DOMAIN shop
  /\ rnd.insert_ok

\* a recorder whose except branch logs but does not notify the observers
create_simulated_visit_Quiet(conn, user, shop, rnd) ==
  IF VisitWritten(user, shop, rnd)
  THEN [rows |-> <<VisitRow(user, shop, rnd)>>,
        conn |-> notify(conn, "visit_simulated",
                        [user_id |-> user["user_id"], shop_id |-> shop["shop_id"]])]
  ELSE [rows |-> <<>>, conn |-> conn]

\* _create_simulated_visit with the random draws and the store's answer in rnd:
\* [rows, conn], rows being the rows inserted into user_visits
create_simulated_visit(conn, user, shop, rnd) ==
  IF VisitWritten(user, shop, rnd)
  THEN [rows |-> <<VisitRow(user, shop, rnd)>>,
        conn |-> notify(conn, "visit_simulated",
                        [user_id |-> user["user_id"], shop_id |-> shop["shop_id"]])]
  ELSE [rows |-> <<>>,
        conn |-> notify(conn, "error", [function |-> "_create_simulated_visit"])]

-----------------------------------------------------------------------------
(* The operators of the dataflow *)

\* str(user_id) of parse_kafka_message and int(key) of
\* check_proximity_and_generate_message; NotAnInt stands for ValueError
NotAnInt == -1

KeyOf(user_id) ==
  CASE user_id = 1 -> "1"
    [] user_id = 2 -> "2"
    [] OTHER -> "unknown"

\* user_id values of a message that are text, not an int
TextUsers == {"abc"}

IntKey(key) ==
  CASE key = "1" -> 1
    [] key = "2" -> 2
    [] OTHER -> NotAnInt

\* f"{key}_message" and f"{key}_write"
MessageId(key) ==
  CASE key = "1" -> "1_message"
    [] key = "2" -> "2_message"
    [] key = "abc" -> "abc_message"
    [] OTHER -> "unknown_message"

WriteId(key) ==
  CASE key = "1" -> "1_write"
    [] key = "2" -> "2_write"
    [] key = "abc" -> "abc_write"
    [] OTHER -> "unknown_write"

\* an enrich that emits the event as it came when no shop was found
enrich_with_nearest_shop_PartialEmit(conn, key, event, res) ==
  Only({
    [out |-> <<[key |-> key, event |-> Update(event, f.shop)]>>,
     conn |-> notify(notify(f.conn, "processing_end", [event_id |-> key]),
                     "event_processed", [user_id |-> key])]
    : f \in {find_nearest_shop(notify(conn, "processing_start", [event_id |-> key]), res)} })

\* enrich_with_nearest_shop((key, event)) when the spatial query answers res:
\* [out, conn], out being the list of items returned
enrich_with_nearest_shop(conn, key, event, res) ==
  Only({
    [out |-> IF DOMAIN f.shop # {}
             THEN <<[key |-> key, event |-> Update(event, f.shop)]>>
             ELSE <<>>,
     conn |-> notify(notify(f.conn, "processing_end", [event_id |-> key]),
                     "event_processed", [user_id |-> key])]
    : f \in {find_nearest_shop(notify(conn, "processing_start", [event_id |-> key]), res)} })

\* a gate that compares with twice the threshold
GatedOut_WrongThreshold(event) ==
  IF "distance" \in DOMAIN event THEN event["distance"] > 2 * MAX_POI_DISTANCE ELSE TRUE

\* a gate that also stops the event at exactly the threshold
GatedOut_Inclusive(event) ==
  IF "distance" \in DOMAIN event THEN event["distance"] >= MAX_POI_DISTANCE ELSE TRUE

\* a gate that lets an event through whatever its distance
GatedOut_Never(event) == FALSE

\* `distance = event.get("distance", float('inf')); if distance > MAX_POI_DISTANCE`
GatedOut(event) ==
  IF "distance" \in DOMAIN event THEN event["distance"] > MAX_POI_DISTANCE ELSE TRUE

\* a gate that drops the event it stops
PassWithoutMessage_Dropping(key, event) == <<>>

\* `event["poi_info"] = ""; return [(key, event)]`: the event is passed on
\* without a message
PassWithoutMessage(key, event) == <<[key |-> key, event |-> Put(event, "poi_info", <<>>)]>>

\* `if message and message.strip()` in check_proximity_and_generate_message
MessagePresent(message) == ~IsBlank(message)

\* a decision taken on the draw alone, whatever the text
VisitDecided_IgnoringText(profile, event, message, draw) ==
  draw < VisitProbability(profile, event, message)

\* `if message and message.strip(): should_visit = _should_simulate_visit(...)`:
\* is _create_simulated_visit called
VisitDecided(profile, event, message, draw) ==
  MessagePresent(message) /\ should_simulate_visit(profile, event, message, draw)

\* a marking that follows the recorder's outcome: visited only when a row
\* was written
MarkVisited_OnlyWhenWritten(event, v) ==
  IF v.rows # <<>>
  THEN Put(Put(event, "visited_shop", TRUE), "visited_shop_id", Get(event, "shop_id", 0))
  ELSE Put(event, "visited_shop", FALSE)

\* the two assignments after _create_simulated_visit(...) has returned with
\* outcome v: event["visited_shop"] = True, event["visited_shop_id"] = shop_id
MarkVisited(event, v) ==
  Put(Put(event, "visited_shop", TRUE), "visited_shop_id", Get(event, "shop_id", 0))

\* the branch `if user_profile:` of check_proximity_and_generate_message:
\* [event, conn, rows, calls, decided, raised]
WithProfile(conn, profile, event, in) ==
  Only({
    IF SimulateRaises(profile, e1, g.message)
    THEN [event |-> e1, conn |-> g.conn, rows |-> <<>>, calls |-> calls,
          decided |-> FALSE, raised |-> TRUE]
    ELSE IF VisitDecided(profile, e1, g.message, in.draw)
         THEN Only({
                [event |-> MarkVisited(e1, v),
                 conn |-> v.conn, rows |-> v.rows, calls |-> calls,
                 decided |-> TRUE, raised |-> FALSE]
                : v \in {create_simulated_visit(g.conn, profile, e1, in.rnd)} })
         ELSE [event |-> Put(e1, "visited_shop", FALSE), conn |-> g.conn,
               rows |-> <<>>, calls |-> calls, decided |-> FALSE, raised |-> FALSE]
    : g \in {generate_message(conn, profile, event, in.resp)},
      calls \in {IF ClientInvoked(conn, profile, event) THEN 1 ELSE 0},
      e1 \in {Put(event, "poi_info", generate_message(conn, profile, event, in.resp).message)} })

\* an else branch that sets the text and leaves visited_shop unset
WithoutProfile_Unmarked(key, event) ==
  <<[key |-> key, event |-> Put(event, "poi_info", <<>>)]>>

\* the `else:` of `if user_profile:`: event["poi_info"] = "" and
\* event["visited_shop"] = False, the item is passed on
WithoutProfile(key, event) ==
  <<[key |-> key,
     event |-> Put(Put(event, "poi_info", <<>>), "visited_shop", FALSE)]>>

\* check_proximity_and_generate_message((key, event)) with the collaborators'
\* answers and the random draws in `in`: [out, conn, rows, calls, decided, raised]
check_proximity_and_generate_message(conn, key, event, in) ==
  Only({
    IF GatedOut(event)
    THEN [out |-> PassWithoutMessage(key, event),
          conn |-> notify(c0, "processing_end", id),
          rows |-> <<>>, calls |-> 0, decided |-> FALSE, raised |-> FALSE,
          path |-> "gated"]
    ELSE IF IntKey(key) = NotAnInt
    THEN [out |-> <<>>, conn |-> c0, rows |-> <<>>, calls |-> 0,
          decided |-> FALSE, raised |-> TRUE, path |-> "raised"]
    ELSE Only({
      IF DOMAIN p.profile # {}
      THEN Only({
             IF w.raised
             THEN [out |-> <<>>, conn |-> w.conn, rows |-> w.rows,
                   calls |-> w.calls, decided |-> w.decided, raised |-> TRUE,
                   path |-> "raised"]
             ELSE [out |-> <<[key |-> key, event |-> w.event]>>,
                   conn |-> notify(w.conn, "processing_end", id),
                   rows |-> w.rows, calls |-> w.calls,
                   decided |-> w.decided, raised |-> FALSE,
                   path |-> "profiled"]
             : w \in {WithProfile(p.conn, p.profile, event, in)} })
      ELSE [out |-> WithoutProfile(key, event),
            conn |-> notify(p.conn, "processing_end", id),
            rows |-> <<>>, calls |-> 0, decided |-> FALSE, raised |-> FALSE,
            path |-> "no_profile"]
      : p \in {get_user_profile(c0, IntKey(key), in.profile)} })
    : id \in {[event_id |-> MessageId(key)]},
      c0 \in {notify(conn, "processing_start", [event_id |-> MessageId(key)])} })

\* the row of user_events written by write_to_clickhouse, projected on the
\* columns event_id, user_id, poi_info
EventRow(key, event) ==
  [event_id |-> Get(event, "_offset", 0), user_id |-> IntKey(key),
   poi_info |-> Get(event, "poi_info", <<>>)]

\* does the try block of write_to_clickhouse reach ch.execute: the timestamp is
\* parsed and int(key), event["latitude"], event["longitude"] are evaluated
SinkAttempted(key, event) ==
  /\ {"timestamp", "latitude", "longitude"} \subseteq DOMAIN event
  /\ IntKey(key) # NotAnInt

\* does the try block of write_to_clickhouse complete
SinkWritten(key, event, insert_ok) == SinkAttempted(key, event) /\ insert_ok

\* a writer that answers a failed insert with a second ch.execute
write_to_clickhouse_Retrying(conn, key, event, insert_ok) ==
  Only({
    IF SinkAttempted(key, event)
    THEN [rows |-> <<EventRow(key, event)>>, conn |-> notify(c0, "processing_end", id),
          attempts |-> IF insert_ok THEN 1 ELSE 2]
    ELSE [rows |-> <<>>,
          conn |-> notify(notify(c0, "error", [function |-> "write_to_clickhouse"]),
                          "processing_end", id),
          attempts |-> 0]
    : id \in {[event_id |-> WriteId(key)]},
      c0 \in {notify(conn, "processing_start", [event_id |-> WriteId(key)])} })

\* write_to_clickhouse((key, event)): [rows, conn, attempts], attempts being
\* the number of ch.execute calls made
write_to_clickhouse(conn, key, event, insert_ok) ==
  Only({
    IF SinkWritten(key, event, insert_ok)
    THEN [rows |-> <<EventRow(key, event)>>, conn |-> notify(c0, "processing_end", id),
          attempts |-> 1]
    ELSE [rows |-> <<>>,
          conn |-> notify(notify(c0, "error", [function |-> "write_to_clickhouse"]),
                          "processing_end", id),
          attempts |-> IF SinkAttempted(key, event) THEN 1 ELSE 0]
    : id \in {[event_id |-> WriteId(key)]},
      c0 \in {notify(conn, "processing_start", [event_id |-> WriteId(key)])} })

-----------------------------------------------------------------------------
(* The environment: what the collaborators can answer *)

\* users reporting positions
Users == {1, 2}

\* rows the spatial query can return: the nearest shop (name and category as
\* the ETL stores them: a non-empty name, a lower-case non-empty category) and
\* its geodesic distance in metres
NearestShops ==
  { [shop_id |-> 1, shop_name |-> <<"Bar Roma">>, category |-> "bar", distance |-> 120],
    [shop_id |-> 2, shop_name |-> <<"Farmacia Centrale">>, category |-> "farmacia",
     distance |-> 200],
    [shop_id |-> 1, shop_name |-> <<"Bar Roma">>, category |-> "bar", distance |-> 350] }

\* rows of the users table
ProfileOf(user_id) ==
  [user_id |-> user_id, age |-> IF user_id = 1 THEN 25 ELSE 60,
   profession |-> "Engineer", interests |-> "sport"]

\* answers of the spatial query
ResolverAnswers ==
  { [kind |-> "found", shop |-> s] : s \in NearestShops }
  \cup { [kind |-> "empty", shop |-> EmptyDict], [kind |-> "error", shop |-> EmptyDict] }

\* answers of the users table for user_id
ProfileAnswers(user_id) ==
  { [kind |-> "found", profile |-> ProfileOf(user_id)],
    [kind |-> "missing", profile |-> EmptyDict],
    [kind |-> "error", profile |-> EmptyDict] }

\* texts the generation service can put in {"message": ...}
ResponseTexts ==
  { <<>>, <<" ">>, <<"[", "Nome del Negozio", "]", "Sconto", "20", "%">> }

\* answers of the generation service: a readable body with a status, a body
\* that cannot be read (response.json()["message"] raises), or a timeout
ClientAnswers ==
  { [kind |-> "ok", status |-> 200, message |-> t] : t \in ResponseTexts }
  \cup { [kind |-> "ok", status |-> 500, message |-> <<>>],
         [kind |-> "malformed", status |-> 200, message |-> <<>>],
         [kind |-> "timeout", status |-> 0, message |-> <<>>] }

\* values of random.random(), in millionths
Draws == {0, 299999, 300000, 899999, 900000, 999999}

\* visit_start.minute
Minutes == {0, 45}

\* random.randint(100000, 999999)
VisitIds == {100000, 999999}

\* the draws of _create_simulated_visit for a shop of this category, and
\* whether the analytics store accepts the insert
VisitDraws(category) ==
  [duration : {DurationRange(category)[1], DurationRange(category)[2]},
   minute : Minutes, visit_id : VisitIds, insert_ok : BOOLEAN]

NoResp == [kind |-> "none", status |-> 0, message |-> <<>>]

NoVisitDraws == [duration |-> 0, minute |-> 0, visit_id |-> 0, insert_ok |-> FALSE]

\* values of random.random() the pipeline runs draw: one below every
\* probability, one above
PipelineDraws == {0, 999999}

\* the inputs of one check_proximity_and_generate_message call on (key, event):
\* the answers of the collaborators it calls and the draws it makes (an answer
\* or a draw the call does not use is left at a fixed value)
StepInputs(conn_, key, event) ==
  IF GatedOut(event) \/ IntKey(key) = NotAnInt
  THEN {[profile |-> [kind |-> "missing", profile |-> EmptyDict], resp |-> NoResp,
         draw |-> 0, rnd |-> NoVisitDraws]}
  ELSE UNION {
    IF profile.kind # "found"
    THEN {[profile |-> profile, resp |-> NoResp, draw |-> 0, rnd |-> NoVisitDraws]}
    ELSE UNION {
      UNION {
        IF ~VisitDecided(profile.profile, event, message, draw)
        THEN {[profile |-> profile, resp |-> resp, draw |-> draw, rnd |-> NoVisitDraws]}
        ELSE {[profile |-> profile, resp |-> resp, draw |-> draw, rnd |-> rnd] :
                rnd \in VisitDraws(CategoryOf(event))}
        : draw \in PipelineDraws,
          message \in {generate_message(conn_, profile.profile, event, resp).message}}
      : resp \in (IF ClientInvoked(conn_, profile.profile, event)
                  THEN ClientAnswers ELSE {NoResp})}
    : profile \in ProfileAnswers(IntKey(key))}

-----------------------------------------------------------------------------
(* State *)

VARIABLES
  caller,       \* who calls the operators: "dataflow" (the lambdas of
                \* build_dataflow) or "direct" (operator(item), as the tests do)
  ingested,     \* number of messages consumed from the queue
  stage,        \* where the item in flight is: "idle", "parsed", "enriched",
                \* "messaged", or "crashed" once an exception left a step
  item,         \* the (key, event) in flight
  conn,         \* the DatabaseConnections singleton: cache and observers
  client_calls, \* POST requests the generation service has received
  user_visits,  \* rows of the analytics table user_visits
  user_events,  \* rows of the analytics table user_events
  step,         \* what the last enrich / check_proximity call on the item did
  sink,         \* what the last write_to_clickhouse call did, and how many
                \* inserts have failed so far
  sim,          \* a direct call of _should_simulate_visit
  visit,        \* a direct call of _create_simulated_visit
  lookups,      \* the direct calls of _get_user_profile made so far
  bus,          \* a Subject with its list of observers
  reg,          \* the DatabaseConnections class: its instance, handles and cache;
                \* the record of the direct calls made on the registry
  redelivery,   \* the first delivery of an event that is delivered twice
  workers,      \* the workers of the flow: their partitions and registries
  svc           \* the message generator's module cache, or a CacheFactory call

\* the variables of the pipeline, the registry apart
pipeline ==
  <<caller, ingested, stage, item, client_calls, user_visits, user_events, step, sink>>

\* the variables of the registry's direct calls, of redelivery, of the workers
\* and of the services
aside == <<reg, redelivery, workers, svc>>

vars == <<pipeline, conn, sim, visit, lookups, bus, aside>>

NoItem == [key |-> "", event |-> EmptyDict]

NoStep == [kind |-> "none"]

NoSink == [kind |-> "none", failures |-> 0]

NoSim == [pc |-> "none"]

NoVisit == [pc |-> "none"]

NoBus == [pc |-> "none"]

NoRedelivery == [kind |-> "none"]

NoReg == [pc |-> "none"]

NoWorkers == [pc |-> "none"]

NoSvc == [pc |-> "none"]

\* nothing consumed yet, the registry freshly constructed
PipelineStart ==
  /\ ingested = 0
  /\ stage = "idle"
  /\ item = NoItem
  /\ conn = InitialConn
  /\ client_calls = 0
  /\ user_visits = <<>>
  /\ user_events = <<>>
  /\ step = NoStep
  /\ sink = NoSink

Init ==
  /\ caller \in {"dataflow", "direct"}
  /\ PipelineStart
  /\ sim = NoSim
  /\ visit = NoVisit
  /\ lookups = <<>>
  /\ bus = NoBus
  /\ reg = NoReg
  /\ redelivery = NoRedelivery
  /\ svc = NoSvc
  /\ workers = NoWorkers

-----------------------------------------------------------------------------
(* Actions *)

\* `def enrich_with_nearest_shop(item)`, `def check_proximity_and_generate_message(item)`,
\* `def write_to_clickhouse(item)`: one positional parameter each
OperatorParameters == 1

\* the arguments of the call: `lambda x: operator(x, db_conn)` in build_dataflow,
\* operator(item) in a direct call
ArgumentsPassed(who) == IF who = "dataflow" THEN 2 ELSE 1

\* the call raises TypeError before the operator's body runs
CallRaises(who) == ArgumentsPassed(who) # OperatorParameters

\* parse_kafka_message and the filter_valid step on a message whose value holds
\* user_id, latitude, longitude and timestamp; key is str(user_id)
Ingest(user_id, key) ==
  /\ stage = "idle"
  /\ ingested < MaxEvents
  /\ ingested' = ingested + 1
  /\ item' = [key |-> key,
              event |-> [user_id |-> user_id, latitude |-> 454642, longitude |-> 91900,
                         timestamp |-> "2023-06-15T14:30:00", _offset |-> ingested]]
  /\ stage' = "parsed"
  /\ step' = NoStep
  /\ sink' = [kind |-> "none", failures |-> sink.failures]
  /\ UNCHANGED <<caller, conn, client_calls, user_visits, user_events,
                 sim, visit, lookups, bus>>
  /\ UNCHANGED aside

\* the record kept of an enrich_with_nearest_shop call
EnrichRecord(before, key, event, res, r) ==
  [kind |-> "enrich",
   key |-> key,
   event |-> event,
   res |-> res.kind,
   shop |-> res.shop,
   errors |-> r.conn.metrics.errors - before.metrics.errors,
   emitted |-> Len(r.out)]

\* the enrich_shop step
Enrich(res) ==
  /\ stage = "parsed"
  /\ IF CallRaises(caller)
     THEN stage' = "crashed" /\ UNCHANGED <<item, conn, step>>
     ELSE \E r \in {enrich_with_nearest_shop(conn, item.key, item.event, res)} :
            /\ conn' = r.conn
            /\ step' = EnrichRecord(conn, item.key, item.event, res, r)
            /\ IF r.out = <<>>
               THEN item' = NoItem /\ stage' = "idle"
               ELSE item' = r.out[1] /\ stage' = "enriched"
  /\ UNCHANGED <<caller, ingested, client_calls, user_visits, user_events, sink,
                 sim, visit, lookups, bus>>
  /\ UNCHANGED aside

\* the record kept of a check_proximity_and_generate_message call
StepRecord(before, calls_before, visits_before, key, event, in, r) ==
  [kind |-> "message",
   calls_before |-> calls_before,
   visits_before |-> visits_before,
   user_id |-> IntKey(key),
   shop_id |-> Get(event, "shop_id", 0),
   has_distance |-> "distance" \in DOMAIN event,
   distance |-> Get(event, "distance", 0),
   path |-> r.path,
   profile |-> IF r.path \in {"profiled", "no_profile"} THEN in.profile.kind ELSE "none",
   resp |-> IF r.calls = 1 THEN in.resp ELSE NoResp,
   calls |-> r.calls,
   errors |-> r.conn.metrics.errors - before.metrics.errors,
   visits |-> Len(r.rows),
   decided |-> r.decided,
   raised |-> r.raised,
   emitted |-> Len(r.out),
   cache_before |-> before.message_cache]

\* the generate_msg step
CheckProximity(in) ==
  /\ stage = "enriched"
  /\ IF CallRaises(caller)
     THEN stage' = "crashed" /\ UNCHANGED <<item, conn, client_calls, user_visits, step>>
     ELSE \E r \in {check_proximity_and_generate_message(conn, item.key, item.event, in)} :
            /\ conn' = r.conn
            /\ client_calls' = client_calls + r.calls
            /\ user_visits' = user_visits \o r.rows
            /\ step' = StepRecord(conn, client_calls, Len(user_visits),
                                  item.key, item.event, in, r)
            /\ IF r.raised
               THEN item' = item /\ stage' = "crashed"
               ELSE IF r.out = <<>>
                    THEN item' = NoItem /\ stage' = "idle"
                    ELSE item' = r.out[1] /\ stage' = "messaged"
  /\ UNCHANGED <<caller, ingested, user_events, sink, sim, visit, lookups, bus>>
  /\ UNCHANGED aside

\* the record kept of a write_to_clickhouse call
SinkRecord(before, events_before, failures_before, key, event, insert_ok, r) ==
  [kind |-> "write",
   key |-> key,
   event |-> event,
   insert_ok |-> insert_ok,
   attempts |-> r.attempts,
   errors |-> r.conn.metrics.errors - before.metrics.errors,
   rows |-> Len(r.rows),
   events_before |-> events_before,
   failures_before |-> failures_before,
   failures |-> failures_before + (IF r.attempts > 0 /\ r.rows = <<>> THEN 1 ELSE 0)]

\* the write_clickhouse step
WriteSink(insert_ok) ==
  /\ stage = "messaged"
  /\ IF CallRaises(caller)
     THEN stage' = "crashed" /\ UNCHANGED <<item, conn, user_events, sink>>
     ELSE \E r \in {write_to_clickhouse(conn, item.key, item.event, insert_ok)} :
            /\ conn' = r.conn
            /\ user_events' = user_events \o r.rows
            /\ sink' = SinkRecord(conn, Len(user_events), sink.failures,
                                  item.key, item.event, insert_ok, r)
            /\ item' = NoItem
            /\ stage' = "idle"
  /\ UNCHANGED <<caller, ingested, client_calls, user_visits, step,
                 sim, visit, lookups, bus>>
  /\ UNCHANGED aside

\* the answers of the analytics store to the insert of (key, event): none is
\* given when the writer does not reach ch.execute
SinkAnswers(key, event) == IF SinkAttempted(key, event) THEN BOOLEAN ELSE {FALSE}

\* the steps the runtime applies to an item in flight
Process ==
  \/ \E res \in ResolverAnswers : Enrich(res)
  \/ \E in \in StepInputs(conn, item.key, item.event) : CheckProximity(in)
  \/ \E insert_ok \in SinkAnswers(item.key, item.event) : WriteSink(insert_ok)

Next ==
  \/ \E u \in Users : Ingest(u, KeyOf(u))
  \/ \E u \in TextUsers : Ingest(u, u)
  \/ \E res \in ResolverAnswers : Enrich(res)
  \/ \E in \in StepInputs(conn, item.key, item.event) : CheckProximity(in)
  \/ \E insert_ok \in SinkAnswers(item.key, item.event) : WriteSink(insert_ok)

Spec == Init /\ [][Next]_vars

\* the runtime runs every step of an item in flight: each event is processed
\* to completion before the next one of the partition is started
FairSpec == Spec /\ WF_vars(Process)

-----------------------------------------------------------------------------
(* Direct calls of _should_simulate_visit on bounded inputs *)

\* shop categories: the six weighted ones, one with capitals, two the weight
\* table does not know
SimCategories ==
  {"ristorante", "bar", "Bar", "gelateria", "abbigliamento", "supermercato",
   "farmacia", "museo", "palestra"}

\* shops with each category, and one with no category key
SimShops ==
  { [shop_id |-> 1, shop_name |-> <<"Bar Roma">>, category |-> c, distance |-> 120] :
      c \in SimCategories }
  \cup { [shop_id |-> 1, shop_name |-> <<"Bar Roma">>, distance |-> 120] }

\* profiles around the two age thresholds, and one with no age key
SimUsers ==
  { [user_id |-> 1, age |-> a, profession |-> "Engineer", interests |-> "sport"] :
      a \in {18, 34, 35, 50, 51, 70} }
  \cup { [user_id |-> 1, profession |-> "Engineer", interests |-> "sport"] }

\* notification texts: empty, blank, plain, with a discount keyword, with a
\* percentage from 5% to 100%, with a "%" that follows no digits
SimMessages ==
  { <<>>, <<" ">>, <<" ", " ">>, <<"Ciao">>, <<"Sconto">>, <<"OFFERTA", " ">>,
    <<"Ciao", " ", "5", "%">>, <<"20", "%">>, <<"40", "%", "5", "%">>,
    <<"Sconto", "100", "%">>, <<"%">>, <<"20", " ", "%">> }

SimInit ==
  /\ caller = "direct"
  /\ PipelineStart
  /\ visit = NoVisit
  /\ lookups = <<>>
  /\ bus = NoBus
  /\ sim \in { [pc |-> "call", user |-> u, shop |-> sh, message |-> m, draw |-> d] :
                 u \in SimUsers, sh \in SimShops, m \in SimMessages, d \in Draws }
  /\ reg = NoReg
  /\ redelivery = NoRedelivery
  /\ svc = NoSvc
  /\ workers = NoWorkers

\* the call returns (or raises); probability is the value compared with the
\* draw, -1 when the function returns before computing one
SimEval ==
  /\ sim.pc = "call"
  /\ sim' = [pc |-> "done", user |-> sim.user, shop |-> sim.shop,
              message |-> sim.message, draw |-> sim.draw,
              raised |-> SimulateRaises(sim.user, sim.shop, sim.message),
              probability |-> IF IsBlank(sim.message) THEN -1
                              ELSE VisitProbability(sim.user, sim.shop, sim.message),
              result |-> should_simulate_visit(sim.user, sim.shop, sim.message, sim.draw)]
  /\ UNCHANGED <<pipeline, conn, visit, lookups, bus>>
  /\ UNCHANGED aside

SimNext == SimEval

SimSpec == SimInit /\ [][SimNext]_vars

-----------------------------------------------------------------------------
(* Direct calls of _create_simulated_visit on bounded inputs *)

\* the categories of VISIT_DURATION_RANGES and one the table does not know
VisitCategories ==
  {"ristorante", "bar", "supermercato", "abbigliamento", "elettronica", "farmacia",
   "libreria", "gelateria", "parrucchiere", "palestra", "museo"}

\* shops with each category
VisitShops ==
  { [shop_id |-> 1, shop_name |-> <<"Bar Roma">>, category |-> c, distance |-> 120] :
      c \in VisitCategories }

\* random.randint(duration_range[0], duration_range[1]): every value of the range
Durations(category) == DurationRange(category)[1]..DurationRange(category)[2]

\* datetime.now().minute
MinutesOfHour == 0..59

VisitInit ==
  /\ caller = "direct"
  /\ PipelineStart
  /\ sim = NoSim
  /\ lookups = <<>>
  /\ bus = NoBus
  /\ visit \in { [pc |-> "call", user |-> ProfileOf(1), shop |-> sh,
                  rnd |-> [duration |-> d, minute |-> m, visit_id |-> 100000,
                           insert_ok |-> ok]] :
                   sh \in VisitShops, m \in MinutesOfHour, ok \in BOOLEAN,
                   d \in UNION {Durations(c) : c \in VisitCategories} }
  /\ visit.rnd.duration \in Durations(CategoryOf(visit.shop))
  /\ reg = NoReg
  /\ redelivery = NoRedelivery
  /\ svc = NoSvc
  /\ workers = NoWorkers

\* the call returns: the rows it inserted and the "error" notifications it made
VisitCall ==
  /\ visit.pc = "call"
  /\ \E v \in {create_simulated_visit(conn, visit.user, visit.shop, visit.rnd)} :
       /\ conn' = v.conn
       /\ user_visits' = user_visits \o v.rows
       /\ visit' = [pc |-> "done", user |-> visit.user, shop |-> visit.shop,
                    rnd |-> visit.rnd, rows |-> Len(v.rows),
                    errors |-> v.conn.metrics.errors - conn.metrics.errors]
  /\ UNCHANGED <<caller, ingested, stage, item, client_calls, user_events, step, sink,
                 sim, lookups, bus>>
  /\ UNCHANGED aside

VisitNext == VisitCall

VisitSpec == VisitInit /\ [][VisitNext]_vars

-----------------------------------------------------------------------------
(* Direct calls of _get_user_profile *)

LookupInit ==
  /\ caller = "direct"
  /\ PipelineStart
  /\ sim = NoSim
  /\ visit = NoVisit
  /\ bus = NoBus
  /\ lookups = <<>>
  /\ reg = NoReg
  /\ redelivery = NoRedelivery
  /\ svc = NoSvc
  /\ workers = NoWorkers

\* one call: what the users table answered and what the function returned
Lookup(user_id, res) ==
  /\ Len(lookups) < MaxLookups
  /\ \E p \in {get_user_profile(conn, user_id, res)} :
       /\ conn' = p.conn
       /\ lookups' = Append(lookups, [user_id |-> user_id, kind |-> res.kind,
                                      found |-> DOMAIN p.profile # {},
                                      result |-> p.profile])
  /\ UNCHANGED <<pipeline, sim, visit, bus>>
  /\ UNCHANGED aside

LookupNext == \E u \in Users : \E res \in ProfileAnswers(u) : Lookup(u, res)

LookupSpec == LookupInit /\ [][LookupNext]_vars

-----------------------------------------------------------------------------
(* A Subject whose observers are attached, detached and notified *)

\* MetricsObserver, PerformanceObserver and one more Observer
ObserverIds == {"metrics", "performance", "audit"}

\* event types passed to notify
BusEvents == {"error", "cache_hit"}

\* observers -> the tick at which each was attached
Since(observers) == [o \in {observers[i] : i \in 1..Len(observers)} |->
                       CHOOSE i \in 1..Len(observers) : observers[i] = o]

\* DatabaseConnections.__init__: attach(metrics) then attach(performance);
\* since[o] is the tick of the attach call that registered o
BusInit ==
  /\ caller = "direct"
  /\ PipelineStart
  /\ sim = NoSim
  /\ visit = NoVisit
  /\ lookups = <<>>
  /\ bus = [pc |-> "ready",
            observers |-> attach(attach(<<>>, "metrics"), "performance"),
            since |-> Since(<<"metrics", "performance">>),
            clock |-> 2,
            last |-> [kind |-> "none"]]
  /\ reg = NoReg
  /\ redelivery = NoRedelivery
  /\ svc = NoSvc
  /\ workers = NoWorkers

BusAttach(o) ==
  /\ bus.pc = "ready"
  /\ bus.clock < MaxAttaches
  /\ bus' = [bus EXCEPT
               !.observers = attach(@, o),
               !.since = IF o \in DOMAIN bus.since THEN @ ELSE Put(@, o, bus.clock + 1),
               !.clock = @ + 1]
  /\ UNCHANGED <<pipeline, conn, sim, visit, lookups>>
  /\ UNCHANGED aside

BusDetach(o) ==
  /\ bus.pc = "ready"
  /\ bus' = [bus EXCEPT
               !.observers = detach(@, o),
               !.since = [x \in (DOMAIN bus.since) \ {o} |-> bus.since[x]]]
  /\ UNCHANGED <<pipeline, conn, sim, visit, lookups>>
  /\ UNCHANGED aside

\* notify(event_type, data) returns: the update calls it made, next to the
\* observers registered when it was called
BusNotify(event_type, failing) ==
  /\ bus.pc = "ready"
  /\ bus' = [bus EXCEPT
               !.last = [kind |-> "notify", event_type |-> event_type,
                         failing |-> failing,
                         since |-> bus.since,
                         deliveries |-> Subject_notify(bus.observers, failing, event_type),
                         returned |-> NotifyReturned(
                           Subject_notify(bus.observers, failing, event_type))]]
  /\ UNCHANGED <<pipeline, conn, sim, visit, lookups>>
  /\ UNCHANGED aside

BusNext ==
  \/ \E o \in ObserverIds : BusAttach(o)
  \/ \E o \in ObserverIds : BusDetach(o)
  \/ \E e \in BusEvents : \E failing \in SUBSET ObserverIds : BusNotify(e, failing)

BusSpec == BusInit /\ [][BusNext]_vars

-----------------------------------------------------------------------------
(* The DatabaseConnections class: construction and the lazy getters *)

\* `_instance = None`, `self._pg_pool = None`
NoInstance == 0

NoHandle == 0

\* the class before any DatabaseConnections() call
ClassStart == [instance |-> NoInstance, created |-> 0, inits |-> 0,
               self |-> [initialized |-> FALSE]]

\* DatabaseConnections.__new__
DatabaseConnections_new(cls) ==
  IF cls.instance = NoInstance
  THEN [cls EXCEPT !.instance = cls.created + 1,
                   !.created = cls.created + 1,
                   !.self = [initialized |-> FALSE]]
  ELSE cls

\* the body of __init__ below the guard; the two observers are new objects
InitBody(cls) ==
  [cls EXCEPT !.inits = cls.inits + 1,
              !.self = [initialized |-> TRUE,
                        pg_pool |-> NoHandle,
                        ch_client |-> NoHandle,
                        http_client |-> NoHandle,
                        message_cache |-> InitialConn.message_cache,
                        observers |-> attach(attach(<<>>, <<"metrics", cls.inits + 1>>),
                                             <<"performance", cls.inits + 1>>)]]

\* an __init__ without the `if self._initialized: return` guard
DatabaseConnections_init_Unguarded(cls) == InitBody(cls)

\* DatabaseConnections.__init__
DatabaseConnections_init(cls) ==
  IF cls.self.initialized THEN cls ELSE InitBody(cls)

\* DatabaseConnections(): __new__, then __init__ on what __new__ returned
DatabaseConnections(cls) ==
  [cls |-> DatabaseConnections_init(DatabaseConnections_new(cls)),
   returned |-> DatabaseConnections_new(cls).instance]

\* get_db_connections()
get_db_connections(cls) == DatabaseConnections(cls)

\* the answer of a handle's constructor: it raises, or it returns an object
Built(ok, handle) == [ok |-> ok, handle |-> handle]

\* get_pg_pool: [self, returned, raised, constructed]
get_pg_pool(self, built) ==
  IF self.pg_pool = NoHandle
  THEN IF built.ok
       THEN [self |-> [self EXCEPT !.pg_pool = built.handle],
             returned |-> built.handle, raised |-> FALSE, constructed |-> TRUE]
       ELSE [self |-> self, returned |-> NoHandle, raised |-> TRUE, constructed |-> TRUE]
  ELSE [self |-> self, returned |-> self.pg_pool, raised |-> FALSE, constructed |-> FALSE]

\* a get_ch_client that builds a client on every call
get_ch_client_Rebuilding(self, built) ==
  IF built.ok
  THEN [self |-> [self EXCEPT !.ch_client = built.handle],
        returned |-> built.handle, raised |-> FALSE, constructed |-> TRUE]
  ELSE [self |-> self, returned |-> NoHandle, raised |-> TRUE, constructed |-> TRUE]

\* get_ch_client
get_ch_client(self, built) ==
  IF self.ch_client = NoHandle
  THEN IF built.ok
       THEN [self |-> [self EXCEPT !.ch_client = built.handle],
             returned |-> built.handle, raised |-> FALSE, constructed |-> TRUE]
       ELSE [self |-> self, returned |-> NoHandle, raised |-> TRUE, constructed |-> TRUE]
  ELSE [self |-> self, returned |-> self.ch_client, raised |-> FALSE, constructed |-> FALSE]

\* a get_http_client that keeps what a failed construction left behind
get_http_client_KeepingFailed(self, built) ==
  IF self.http_client = NoHandle
  THEN IF built.ok
       THEN [self |-> [self EXCEPT !.http_client = built.handle],
             returned |-> built.handle, raised |-> FALSE, constructed |-> TRUE]
       ELSE [self |-> [self EXCEPT !.http_client = -1],
             returned |-> NoHandle, raised |-> TRUE, constructed |-> TRUE]
  ELSE [self |-> self, returned |-> self.http_client, raised |-> FALSE, constructed |-> FALSE]

\* get_http_client
get_http_client(self, built) ==
  IF self.http_client = NoHandle
  THEN IF built.ok
       THEN [self |-> [self EXCEPT !.http_client = built.handle],
             returned |-> built.handle, raised |-> FALSE, constructed |-> TRUE]
       ELSE [self |-> self, returned |-> NoHandle, raised |-> TRUE, constructed |-> TRUE]
  ELSE [self |-> self, returned |-> self.http_client, raised |-> FALSE, constructed |-> FALSE]

Getters == {"get_pg_pool", "get_ch_client", "get_http_client"}

\* getter(self): the call of the getter of that name
CallGetter(getter, self, built) ==
  CASE getter = "get_pg_pool" -> get_pg_pool(self, built)
    [] getter = "get_ch_client" -> get_ch_client(self, built)
    [] getter = "get_http_client" -> get_http_client(self, built)

\* the attribute a getter memoizes in
HandleOf(self, getter) ==
  CASE getter = "get_pg_pool" -> self.pg_pool
    [] getter = "get_ch_client" -> self.ch_client
    [] getter = "get_http_client" -> self.http_client

\* what the registry's cache is given to store
RegUsers == {1}

RegShops == {1, 2}

RegTexts == {<<"Bar Roma">>, <<"Sconto">>}

\* build_dataflow has constructed the registry once
RegStart ==
  [pc |-> "ready",
   cls |-> DatabaseConnections(ClassStart).cls,
   built |-> [g \in Getters |-> 0],
   first |-> [g \in Getters |-> NoHandle],
   failed |-> {},
   last |-> [kind |-> "none"]]

RegInit ==
  /\ caller = "direct"
  /\ PipelineStart
  /\ sim = NoSim
  /\ visit = NoVisit
  /\ lookups = <<>>
  /\ bus = NoBus
  /\ redelivery = NoRedelivery
  /\ svc = NoSvc
  /\ workers = NoWorkers
  /\ reg = RegStart

\* DatabaseConnections() or get_db_connections() once more
RegConstruct(how) ==
  /\ reg.pc = "ready"
  /\ \E r \in {IF how = "get_db_connections" THEN get_db_connections(reg.cls)
               ELSE DatabaseConnections(reg.cls)} :
       reg' = [reg EXCEPT
                 !.cls = r.cls,
                 !.last = [kind |-> "construct", how |-> how,
                           instance_before |-> reg.cls.instance,
                           self_before |-> reg.cls.self,
                           returned |-> r.returned]]
  /\ UNCHANGED <<pipeline, conn, sim, visit, lookups, bus, redelivery, workers, svc>>

\* one call of a getter; the constructor, when called, raises or returns a
\* new object
RegGet(getter, ok) ==
  /\ reg.pc = "ready"
  /\ \E r \in {CallGetter(getter, reg.cls.self, Built(ok, reg.built[getter] + 1))} :
       reg' = [reg EXCEPT
                 !.cls.self = r.self,
                 !.built[getter] = IF r.constructed /\ ok THEN @ + 1 ELSE @,
                 !.first[getter] = IF @ = NoHandle /\ ~r.raised THEN r.returned ELSE @,
                 !.failed = IF r.raised THEN @ \cup {getter} ELSE @ \ {getter},
                 !.last = [kind |-> "get", getter |-> getter, ok |-> ok,
                           before |-> HandleOf(reg.cls.self, getter),
                           after_failure |-> getter \in reg.failed,
                           returned |-> r.returned, raised |-> r.raised,
                           constructed |-> r.constructed]]
  /\ UNCHANGED <<pipeline, conn, sim, visit, lookups, bus, redelivery, workers, svc>>

\* cache_message on the instance
RegCache(user_id, shop_id, message) ==
  /\ reg.pc = "ready"
  /\ reg' = [reg EXCEPT
               !.cls.self = cache_message(@, user_id, shop_id, message),
               !.last = [kind |-> "cache"]]
  /\ UNCHANGED <<pipeline, conn, sim, visit, lookups, bus, redelivery, workers, svc>>

\* attach of one more observer on the instance
RegAttach(observer) ==
  /\ reg.pc = "ready"
  /\ reg' = [reg EXCEPT
               !.cls.self.observers = attach(@, observer),
               !.last = [kind |-> "attach"]]
  /\ UNCHANGED <<pipeline, conn, sim, visit, lookups, bus, redelivery, workers, svc>>

RegNext ==
  \/ \E how \in {"DatabaseConnections", "get_db_connections"} : RegConstruct(how)
  \/ \E g \in Getters : \E ok \in BOOLEAN : RegGet(g, ok)
  \/ \E u \in RegUsers : \E s \in RegShops : \E m \in RegTexts : RegCache(u, s, m)
  \/ RegAttach(<<"audit", 0>>)

RegistrySpec == RegInit /\ [][RegNext]_vars

-----------------------------------------------------------------------------
(* The dedup cache under direct calls of cache_message and get_cached_message *)

\* ids whose decimal forms are prefixes of one another
CacheUsers == {1, 11}

CacheShops == {2, 12}

CacheTexts == {<<>>, <<"Bar Roma">>}

\* reg.stored: the text last passed to cache_message for each (user_id, shop_id)
CacheInit ==
  /\ caller = "direct"
  /\ PipelineStart
  /\ sim = NoSim
  /\ visit = NoVisit
  /\ lookups = <<>>
  /\ bus = NoBus
  /\ redelivery = NoRedelivery
  /\ svc = NoSvc
  /\ workers = NoWorkers
  /\ reg = [pc |-> "cache", calls |-> 0, stored |-> EmptyDict, last |-> [kind |-> "none"]]

\* conn.cache_message(user_id, shop_id, message)
CacheStore(user_id, shop_id, message) ==
  /\ reg.pc = "cache"
  /\ reg.calls < MaxCacheCalls
  /\ conn' = cache_message(conn, user_id, shop_id, message)
  /\ reg' = [reg EXCEPT !.calls = @ + 1,
                        !.stored = Put(@, <<user_id, shop_id>>, message),
                        !.last = [kind |-> "store"]]
  /\ UNCHANGED <<pipeline, sim, visit, lookups, bus, redelivery, workers, svc>>

\* conn.get_cached_message(user_id, shop_id): None is found = FALSE
CacheLookup(user_id, shop_id) ==
  /\ reg.pc = "cache"
  /\ reg.calls < MaxCacheCalls
  /\ \E r \in {get_cached_message(conn, user_id, shop_id)} :
       /\ conn' = r.conn
       /\ reg' = [reg EXCEPT !.calls = @ + 1,
                             !.last = [kind |-> "lookup", user_id |-> user_id,
                                       shop_id |-> shop_id,
                                       found |-> r.found, value |-> r.value]]
  /\ UNCHANGED <<pipeline, sim, visit, lookups, bus, redelivery, workers, svc>>

CacheNext ==
  \/ \E u \in CacheUsers : \E s \in CacheShops : \E m \in CacheTexts : CacheStore(u, s, m)
  \/ \E u \in CacheUsers : \E s \in CacheShops : CacheLookup(u, s)

CacheSpec == CacheInit /\ [][CacheNext]_vars

-----------------------------------------------------------------------------
(* Redelivery: the queue delivers a message that was already processed *)

RedeliveryInit ==
  /\ caller = "direct"
  /\ PipelineStart
  /\ sim = NoSim
  /\ visit = NoVisit
  /\ lookups = <<>>
  /\ bus = NoBus
  /\ reg = NoReg
  /\ redelivery = NoRedelivery
  /\ svc = NoSvc
  /\ workers = NoWorkers

\* the message whose EnrichedEvent was just handed to the sink is consumed
\* again: parse_kafka_message builds the same (key, event), offset included
Redeliver ==
  /\ stage = "idle"
  /\ sink.kind = "write"
  /\ redelivery = NoRedelivery
  /\ ingested < MaxEvents
  /\ ingested' = ingested + 1
  /\ redelivery' = [kind |-> "again", first |-> sink.event, path |-> step.path]
  /\ item' = [key |-> sink.key,
              event |-> [f \in {"user_id", "latitude", "longitude", "timestamp", "_offset"}
                           |-> sink.event[f]]]
  /\ stage' = "parsed"
  /\ step' = NoStep
  /\ sink' = [kind |-> "none", failures |-> sink.failures]
  /\ UNCHANGED <<caller, conn, client_calls, user_visits, user_events,
                 sim, visit, lookups, bus, reg, workers, svc>>

\* the user whose messages the queue holds
RedeliveryUsers == {1}

RedeliveryNext ==
  \/ \E u \in RedeliveryUsers : Ingest(u, KeyOf(u))
  \/ Redeliver
  \/ \E res \in ResolverAnswers : Enrich(res)
  \/ \E in \in StepInputs(conn, item.key, item.event) : CheckProximity(in)
  \/ \E insert_ok \in SinkAnswers(item.key, item.event) : WriteSink(insert_ok)

RedeliverySpec == RedeliveryInit /\ [][RedeliveryNext]_vars

-----------------------------------------------------------------------------
(* The flow on several workers: KafkaSource partitions, one registry each *)

\* the workers cli_main starts; worker w reads partition w of the topic
Workers == {1, 2}

\* the user whose messages the topic holds
WorkerUsers == {1}

\* build_dataflow on every worker: db_conn = DatabaseConnections(), nothing
\* consumed; the topic is empty
WorkersInit ==
  /\ caller = "direct"
  /\ PipelineStart
  /\ sim = NoSim
  /\ visit = NoVisit
  /\ lookups = <<>>
  /\ bus = NoBus
  /\ reg = NoReg
  /\ redelivery = NoRedelivery
  /\ svc = NoSvc
  /\ workers = [pc |-> "running",
                produced |-> 0,
                clock |-> 0,
                partitions |-> [w \in Workers |-> <<>>],
                current |-> [w \in Workers |-> NoItem],
                started |-> [w \in Workers |-> 0],
                conns |-> [w \in Workers |-> InitialConn],
                done |-> <<>>]

\* producer.send(topic, value=event): no key is given, so the partition the
\* message lands on does not depend on its user_id
Produce(user_id, partition) ==
  /\ workers.pc = "running"
  /\ workers.produced < MaxEvents
  /\ workers' = [workers EXCEPT
       !.produced = @ + 1,
       !.partitions[partition] =
          Append(@, [kind |-> "bytes_json_dict", text_id |-> FALSE,
                     value |-> [user_id |-> user_id, latitude |-> 454642,
                                longitude |-> 91900,
                                timestamp |-> "2023-06-15T14:30:00"],
                     offset |-> workers.produced])]
  /\ UNCHANGED <<pipeline, conn, sim, visit, lookups, bus, reg, redelivery, svc>>

\* what `except Exception` of parse_kafka_message returns
ErrorItem == [key |-> "error", event |-> [error |-> "parse"]]

\* the forms of msg["value"] on which the try block raises: bytes that are not
\* JSON, bytes or text that do not decode to a dict (no .get)
Unparseable(msg) == msg.kind \in {"bytes_invalid", "bytes_json_other", "text"}

\* str(value.get("user_id", "unknown")); msg.text_id tells a str user_id from
\* an int one
KeyOfValue(msg, value) ==
  IF "user_id" \notin DOMAIN value THEN "unknown"
  ELSE IF msg.text_id THEN value["user_id"] ELSE KeyOf(value["user_id"])

\* parse_kafka_message: (key, value) with key = str(user_id) and the offset
\* added to the value; ("error", {...}) when anything raises
parse_kafka_message(msg) ==
  IF Unparseable(msg) THEN ErrorItem
  ELSE Only({ [key |-> KeyOfValue(msg, value),
               event |-> Put(value, "_offset", msg.offset)]
              : value \in {IF msg.kind = "absent" THEN EmptyDict ELSE msg.value} })

\* a filter that looks at the key alone
filter_valid_KeyOnly(x) == x.key # "error"

\* the filter_valid step: lambda x: x[0] != "error" and "user_id" in x[1]
filter_valid(x) == x.key # "error" /\ "user_id" \in DOMAIN x.event

\* kafka_input, parse, filter_valid on worker w: the next message of its
\* partition; no step of the flow hands an item to another worker
WorkerStart(w) ==
  /\ workers.pc = "running"
  /\ workers.current[w] = NoItem
  /\ workers.partitions[w] # <<>>
  /\ workers' = [workers EXCEPT
       !.clock = @ + 1,
       !.partitions[w] = Tail(@),
       !.current[w] = parse_kafka_message(Head(workers.partitions[w])),
       !.started[w] = workers.clock + 1]
  /\ UNCHANGED <<pipeline, conn, sim, visit, lookups, bus, reg, redelivery, svc>>

\* the record kept of an event a worker has finished
DoneRecord(w, it, shop_id, calls) ==
  [worker |-> w, offset |-> it.event["_offset"], user_id |-> it.event["user_id"],
   shop_id |-> shop_id, calls |-> calls,
   start |-> workers.started[w], finish |-> workers.clock + 1]

\* enrich_shop, generate_msg and write_clickhouse on worker w's item, with
\* worker w's registry
WorkerFinish(w) ==
  /\ workers.pc = "running"
  /\ workers.current[w] # NoItem
  /\ \E res \in ResolverAnswers :
     \E it \in {workers.current[w]} :
     \E r1 \in {enrich_with_nearest_shop(workers.conns[w], it.key, it.event, res)} :
       IF r1.out = <<>>
       THEN workers' = [workers EXCEPT
              !.clock = @ + 1,
              !.current[w] = NoItem,
              !.conns[w] = r1.conn,
              !.done = Append(@, DoneRecord(w, it, 0, 0))]
       ELSE \E in \in StepInputs(r1.conn, r1.out[1].key, r1.out[1].event) :
            \E r2 \in {check_proximity_and_generate_message(
                         r1.conn, r1.out[1].key, r1.out[1].event, in)} :
            \E insert_ok \in SinkAnswers(r2.out[1].key, r2.out[1].event) :
            \E r3 \in {write_to_clickhouse(r2.conn, r2.out[1].key, r2.out[1].event,
                                           insert_ok)} :
              workers' = [workers EXCEPT
                !.clock = @ + 1,
                !.current[w] = NoItem,
                !.conns[w] = r3.conn,
                !.done = Append(@, DoneRecord(w, it, r2.out[1].event["shop_id"],
                                              r2.calls))]
  /\ UNCHANGED <<pipeline, conn, sim, visit, lookups, bus, reg, redelivery, svc>>

WorkersNext ==
  \/ \E u \in WorkerUsers : \E p \in Workers : Produce(u, p)
  \/ \E w \in Workers : WorkerStart(w)
  \/ \E w \in Workers : WorkerFinish(w)

WorkersSpec == WorkersInit /\ [][WorkersNext]_vars

-----------------------------------------------------------------------------
(* check_proximity_and_generate_message called on events of any distance *)

\* distances around the threshold
GateDistances == {0, 199, 200, 201, 350}

\* enriched events: a shop with each distance, and one with no distance field
GateEvents ==
  { [user_id |-> u, latitude |-> 454642, longitude |-> 91900,
     timestamp |-> "2023-06-15T14:30:00", _offset |-> 0,
     shop_id |-> 1, shop_name |-> <<"Bar Roma">>, category |-> "bar",
     distance |-> d] : u \in Users, d \in GateDistances }
  \cup
  { [user_id |-> u, latitude |-> 454642, longitude |-> 91900,
     timestamp |-> "2023-06-15T14:30:00", _offset |-> 0,
     shop_id |-> 1, shop_name |-> <<"Bar Roma">>, category |-> "bar"] : u \in Users }

\* the item is handed to the generate_msg step as it is
GateInit ==
  /\ caller = "direct"
  /\ ingested = 1
  /\ stage = "enriched"
  /\ \E event \in GateEvents : item = [key |-> KeyOf(event["user_id"]), event |-> event]
  /\ conn = InitialConn
  /\ client_calls = 0
  /\ user_visits = <<>>
  /\ user_events = <<>>
  /\ step = NoStep
  /\ sink = NoSink
  /\ sim = NoSim
  /\ visit = NoVisit
  /\ lookups = <<>>
  /\ bus = NoBus
  /\ reg = NoReg
  /\ redelivery = NoRedelivery
  /\ svc = NoSvc
  /\ workers = NoWorkers

GateNext ==
  \/ \E in \in StepInputs(conn, item.key, item.event) : CheckProximity(in)
  \/ \E insert_ok \in SinkAnswers(item.key, item.event) : WriteSink(insert_ok)

GateSpec == GateInit /\ [][GateNext]_vars

-----------------------------------------------------------------------------
(* The message generator under direct calls of _generate_message *)

MaxGenerateCalls == 3

GenerateUsers == {1}

\* shops whose names are plain or carry a bracketed part
GenerateShops ==
  { [shop_id |-> 1, shop_name |-> <<"Bar Roma">>, category |-> "bar", distance |-> 120],
    [shop_id |-> 2, shop_name |-> <<"Bar", "[", "Centro", "]">>, category |-> "bar",
     distance |-> 80] }

\* bodies of the generation service: plain, templated, bracketed on one line and
\* bracketed across a line break
GenerateTexts ==
  { <<>>,
    <<"Ciao">>,
    <<"Vieni", "da", "{shop_name}">>,
    <<"{name}", "ti", "aspetta">>,
    <<"[", "Nome del Negozio", "]", "Sconto", "20", "%">>,
    <<"[", "nome", "]">>,
    <<"[", "nome", "\n", "negozio", "]">> }

GenerateAnswers ==
  { [kind |-> "ok", status |-> 200, message |-> t] : t \in GenerateTexts }
  \cup { [kind |-> "ok", status |-> 500, message |-> <<>>],
         [kind |-> "timeout", status |-> 0, message |-> <<>>] }

GenerateInit ==
  /\ caller = "direct"
  /\ PipelineStart
  /\ sim = NoSim
  /\ visit = NoVisit
  /\ lookups = <<>>
  /\ bus = NoBus
  /\ redelivery = NoRedelivery
  /\ svc = NoSvc
  /\ workers = NoWorkers
  /\ reg = [pc |-> "generate", calls |-> 0, last |-> [kind |-> "none"]]

\* what one call of _generate_message did: the lookup it made, whether it reached
\* client.post, the branch it took and the text it returned
GenerateRecord(conn_, user, shop, resp, r) ==
  [kind |-> "generate",
   user_id |-> user["user_id"], shop_id |-> shop["shop_id"],
   shop_name |-> shop["shop_name"],
   hit |-> get_cached_message(conn_, user["user_id"], shop["shop_id"]).found,
   invoked |-> ClientInvoked(conn_, user, shop),
   success |-> ClientInvoked(conn_, user, shop) /\ resp.kind = "ok" /\ resp.status = 200,
   body |-> resp.message,
   message |-> r.message]

\* await _generate_message(conn, user, shop) with the service answering resp
Generate(user, shop, resp) ==
  /\ reg.pc = "generate"
  /\ reg.calls < MaxGenerateCalls
  /\ \E r \in {generate_message(conn, user, shop, resp)} :
       /\ conn' = r.conn
       /\ reg' = [reg EXCEPT !.calls = @ + 1,
                             !.last = GenerateRecord(conn, user, shop, resp, r)]
  /\ UNCHANGED <<pipeline, sim, visit, lookups, bus, redelivery, workers, svc>>

GenerateNext ==
  \E u \in GenerateUsers : \E s \in GenerateShops : \E resp \in GenerateAnswers :
    Generate(ProfileOf(u), s, resp)

GenerateSpec == GenerateInit /\ [][GenerateNext]_vars

-----------------------------------------------------------------------------
(* The head of the flow: kafka_input, parse and filter_valid on any message *)

\* a position event as the producer sends it
PositionOf(user_id) ==
  [user_id |-> user_id, latitude |-> 454642, longitude |-> 91900,
   timestamp |-> "2023-06-15T14:30:00"]

\* the same event without its user_id
Anonymous ==
  [latitude |-> 454642, longitude |-> 91900, timestamp |-> "2023-06-15T14:30:00"]

\* messages of the topic whose user_id is an int or is missing: JSON bytes or
\* an already decoded dict; bytes that are not JSON; JSON that is not an
\* object; a str value; a message without a value
QueueMessages ==
  { [kind |-> k, text_id |-> FALSE, value |-> PositionOf(1)]
      : k \in {"bytes_json_dict", "dict"} }
  \cup { [kind |-> k, text_id |-> FALSE, value |-> Anonymous]
           : k \in {"bytes_json_dict", "dict"} }
  \cup { [kind |-> k, text_id |-> FALSE, value |-> EmptyDict]
           : k \in {"bytes_invalid", "bytes_json_other", "text", "absent"} }

\* messages of the topic whose user_id is a text
TextMessages ==
  { [kind |-> "bytes_json_dict", text_id |-> TRUE, value |-> PositionOf(u)]
      : u \in {"abc", "error"} }

ConsumeInit ==
  /\ caller \in {"dataflow", "direct"}
  /\ PipelineStart
  /\ sim = NoSim
  /\ visit = NoVisit
  /\ lookups = <<>>
  /\ bus = NoBus
  /\ redelivery = NoRedelivery
  /\ svc = NoSvc
  /\ workers = NoWorkers
  /\ reg = [pc |-> "consume", last |-> [kind |-> "none"]]

\* the record kept of the last message read from the topic
ConsumeRecord(msg, x) ==
  [kind |-> "message", msg |-> msg, key |-> x.key, passed |-> filter_valid(x)]

\* kafka_input, parse and filter_valid on the next message of the topic: the
\* item goes on to enrich_shop only when the filter lets it through
Consume(m) ==
  /\ reg.pc = "consume"
  /\ stage = "idle"
  /\ ingested < MaxEvents
  /\ ingested' = ingested + 1
  /\ \E msg \in {[kind |-> m.kind, text_id |-> m.text_id, value |-> m.value,
                  offset |-> ingested]} :
       \E x \in {parse_kafka_message(msg)} :
         /\ reg' = [reg EXCEPT !.last = ConsumeRecord(msg, x)]
         /\ IF filter_valid(x)
            THEN item' = x /\ stage' = "parsed"
            ELSE item' = NoItem /\ stage' = "idle"
  /\ step' = NoStep
  /\ sink' = [kind |-> "none", failures |-> sink.failures]
  /\ UNCHANGED <<caller, conn, client_calls, user_visits, user_events,
                 sim, visit, lookups, bus, redelivery, workers, svc>>

ConsumeNext ==
  \/ \E m \in QueueMessages : Consume(m)
  \/ \E m \in TextMessages : Consume(m)
  \/ \E res \in ResolverAnswers : Enrich(res)
  \/ \E in \in StepInputs(conn, item.key, item.event) : CheckProximity(in)
  \/ \E insert_ok \in SinkAnswers(item.key, item.event) : WriteSink(insert_ok)

ConsumeSpec == ConsumeInit /\ [][ConsumeNext]_vars

-----------------------------------------------------------------------------
(* The message generator service's in-memory cache (cache_utils) *)

\* `if len(_message_cache) > 1000`
CACHE_LIMIT == 1000

\* `list(_message_cache.keys())[:200]`
CACHE_EVICTED == 200

\* "max_size": 1000 of get_cache_stats
CACHE_MAX_SIZE == 1000

\* cache keys the callers use
MaxCacheKeys == 1003

\* `if len(_message_cache) > 1000:`
OverLimit(cache) == Len(cache) > CACHE_LIMIT

\* the dict after the clean-up: the first 200 keys in insertion order deleted
Evict(cache) == SubSeq(cache, Min(CACHE_EVICTED, Len(cache)) + 1, Len(cache))

\* _message_cache[cache_key] = message on a dict kept in insertion order: an
\* existing key keeps its place, a new key goes last
StoreEntry(cache, cache_key, message) ==
  IF \E i \in 1..Len(cache) : cache[i][1] = cache_key
  THEN [i \in 1..Len(cache) |->
          IF cache[i][1] = cache_key THEN <<cache_key, message>> ELSE cache[i]]
  ELSE Append(cache, <<cache_key, message>>)

\* cache_utils.cache_message(cache_key, message) on _message_cache
svc_cache_message(cache, cache_key, message) ==
  StoreEntry(IF OverLimit(cache) THEN Evict(cache) ELSE cache, cache_key, message)

\* the module as imported: _message_cache = {}
SvcCacheInit ==
  /\ caller = "direct"
  /\ PipelineStart
  /\ sim = NoSim
  /\ visit = NoVisit
  /\ lookups = <<>>
  /\ bus = NoBus
  /\ reg = NoReg
  /\ redelivery = NoRedelivery
  /\ workers = NoWorkers
  /\ svc = [pc |-> "cache", cache |-> <<>>, next |-> 1, evictions |-> 0]

\* cache_message under a key never used before
SvcCacheNew ==
  /\ svc.pc = "cache"
  /\ svc.next <= MaxCacheKeys
  /\ svc' = [svc EXCEPT
       !.cache = svc_cache_message(@, svc.next, "a"),
       !.next = @ + 1,
       !.evictions = @ + (IF OverLimit(svc.cache) THEN 1 ELSE 0)]
  /\ UNCHANGED <<pipeline, conn, sim, visit, lookups, bus, reg, redelivery, workers>>

\* cache_message under the oldest key the cache holds, with another text
SvcCacheAgain ==
  /\ svc.pc = "cache"
  /\ svc.cache # <<>>
  /\ svc.cache[1][2] = "a"
  /\ svc' = [svc EXCEPT
       !.cache = svc_cache_message(@, svc.cache[1][1], "b"),
       !.evictions = @ + (IF OverLimit(svc.cache) THEN 1 ELSE 0)]
  /\ UNCHANGED <<pipeline, conn, sim, visit, lookups, bus, reg, redelivery, workers>>

SvcCacheNext == SvcCacheNew \/ SvcCacheAgain

SvcCacheSpec == SvcCacheInit /\ [][SvcCacheNext]_vars

-----------------------------------------------------------------------------
(* CacheFactory: the choice between RedisCache and MemoryCache *)

MaxFactoryCalls == 2

\* the Redis server as a call finds it: "up"; "down" (redis.Redis(...) raises
\* ConnectionError); "failing" (connected, every command raises RedisError)
RedisStates == {"up", "down", "failing"}

\* RedisCache(...): a connection failure is caught in __init__ and leaves
\* client None
RedisCache(redis) ==
  [class |-> "RedisCache", client |-> IF redis = "down" THEN "None" ELSE "client"]

\* MemoryCache(default_ttl=...)
MemoryCache == [class |-> "MemoryCache", client |-> "None"]

\* RedisCache.set / RedisCache.delete: False without raising when client is
\* None or the command raises, True otherwise: [result, raised]
RedisCommand(cache, redis) ==
  [result |-> cache.client # "None" /\ redis = "up", raised |-> FALSE]

\* _create_auto_cache: the try block returns the RedisCache unless something
\* in it raised; the except branch returns a MemoryCache
create_auto_cache(redis) ==
  Only({
    IF set.raised \/ delete.raised THEN MemoryCache ELSE redis_cache
    : redis_cache \in {RedisCache(redis)},
      set \in {RedisCommand(RedisCache(redis), redis)},
      delete \in {RedisCommand(RedisCache(redis), redis)} })

\* CacheFactory.create_cache(cache_type): [raised, cache]
create_cache(cache_type, redis) ==
  CASE cache_type = "memory" -> [raised |-> FALSE, cache |-> MemoryCache]
    [] cache_type = "redis" -> [raised |-> FALSE, cache |-> RedisCache(redis)]
    [] cache_type = "auto" -> [raised |-> FALSE, cache |-> create_auto_cache(redis)]
    [] OTHER -> [raised |-> TRUE, cache |-> [class |-> "none", client |-> "None"]]

CacheTypes == {"memory", "redis", "auto", "disk"}

\* svc.calls: the create_cache calls made so far, each with the server's state
\* and what the call returned
FactoryInit ==
  /\ caller = "direct"
  /\ PipelineStart
  /\ sim = NoSim
  /\ visit = NoVisit
  /\ lookups = <<>>
  /\ bus = NoBus
  /\ reg = NoReg
  /\ redelivery = NoRedelivery
  /\ workers = NoWorkers
  /\ svc = [pc |-> "factory", calls |-> <<>>]

\* CacheFactory.create_cache(cache_type) while the server is in state redis
CreateCache(cache_type, redis) ==
  /\ svc.pc = "factory"
  /\ Len(svc.calls) < MaxFactoryCalls
  /\ \E r \in {create_cache(cache_type, redis)} :
       svc' = [svc EXCEPT !.calls =
                 Append(@, [cache_type |-> cache_type, redis |-> redis,
                            raised |-> r.raised, cache |-> r.cache])]
  /\ UNCHANGED <<pipeline, conn, sim, visit, lookups, bus, reg, redelivery, workers>>

FactoryNext ==
  \E cache_type \in CacheTypes : \E redis \in RedisStates : CreateCache(cache_type, redis)

FactorySpec == FactoryInit /\ [][FactoryNext]_vars

-----------------------------------------------------------------------------
(* Properties *)

\* the last check_proximity_and_generate_message call has been recorded
Stepped == step.kind = "message"

\* the item in flight is the EnrichedEvent that call emitted
Emitted == Stepped /\ stage = "messaged"

\* fields of the emitted EnrichedEvent
NotificationText == Get(item.event, "poi_info", <<"<absent>">>)

MarkedVisited == Get(item.event, "visited_shop", FALSE) = TRUE

\* the cache key of the last call
StepKey == get_cache_key(step.user_id, step.shop_id)

\* C1: an event whose nearest-shop distance exceeds MAX_POI_DISTANCE (200 m) is
\* emitted by check_proximity_and_generate_message with empty notification text
\* and is not marked visited.
C1_FarEventEmittedEmpty ==
  (Stepped /\ step.has_distance /\ step.distance > 200)
    => /\ step.emitted = 1
       /\ ~step.raised
       /\ (stage = "messaged" => NotificationText = <<>> /\ ~MarkedVisited)

C1_Witness ==
  /\ Emitted /\ step.distance = 350
  /\ NotificationText = <<>>
  /\ DOMAIN conn.message_cache # {}

\* C2 (as claimed): once a generate() call for a (user_id, shop_id) pair has
\* stored the text the generation client returned, the next generate() call for
\* the same pair does not invoke the client and returns that same text.
C2_SecondCallIsCacheHit ==
  (Stepped /\ step.path = "profiled" /\ StepKey \in DOMAIN step.cache_before)
    => /\ step.calls = 0
       /\ client_calls = step.calls_before
       /\ (stage = "messaged" => NotificationText = step.cache_before[StepKey])

\* C3: when the generation client answers with a status other than 200,
\* generate() returns "" and the dedup cache holds exactly the entries it held
\* before the call.
C3_Non200LeavesCacheUnchanged ==
  (Stepped /\ step.calls = 1 /\ step.resp.kind = "ok" /\ step.resp.status # 200)
    => /\ conn.message_cache = step.cache_before
       /\ step.emitted = 1
       /\ (stage = "messaged" => NotificationText = <<>>)

C3_Witness ==
  /\ Emitted /\ step.calls = 1 /\ step.resp.kind = "ok" /\ step.resp.status = 500
  /\ NotificationText = <<>>
  /\ StepKey \notin DOMAIN conn.message_cache

\* C4: every EnrichedEvent the pipeline emits with empty notification text is
\* not marked visited, after any sequence of events and collaborator outcomes.
C4_EmptyTextNotVisited ==
  stage = "messaged" => (NotificationText = <<>> => ~MarkedVisited)

C4_Witness ==
  /\ Emitted /\ step.path = "profiled" /\ step.calls = 1
  /\ step.resp.kind = "ok" /\ step.resp.status = 200
  /\ NotificationText = <<>>
  /\ "visited_shop" \in DOMAIN item.event /\ ~MarkedVisited

\* the generation client was called and failed: a status other than 200, a
\* body that cannot be read, or a timeout
ClientFailed ==
  /\ Stepped /\ step.calls = 1
  /\ \/ step.resp.kind \in {"timeout", "malformed"}
     \/ step.resp.kind = "ok" /\ step.resp.status # 200

\* C5: when the generation client fails or times out for an eligible event with
\* a known profile, no exception leaves the operator, the EnrichedEvent is
\* emitted with empty notification text and exactly one "error" notification
\* reaches the metrics observers during that call.
C5_ClientFailureDegrades ==
  (ClientFailed /\ step.profile = "found")
    => /\ ~step.raised
       /\ step.emitted = 1
       /\ step.errors = 1
       /\ (stage = "messaged" => NotificationText = <<>> /\ ~MarkedVisited)

C5_Witness ==
  /\ Emitted /\ ClientFailed /\ step.resp.kind = "timeout" /\ step.profile = "found"
  /\ step.errors = 1 /\ conn.metrics.errors = 2
  /\ NotificationText = <<>>

\* C6: processing an event gated out by distance makes no generation-client
\* call and writes no visit record.
C6_GatedOutNoCallNoVisit ==
  (Stepped /\ step.has_distance /\ step.distance > 200)
    => /\ step.calls = 0 /\ client_calls = step.calls_before
       /\ step.visits = 0 /\ Len(user_visits) = step.visits_before
       /\ ~step.decided

C6_Witness ==
  /\ Emitted /\ step.distance = 350 /\ step.path = "gated"
  /\ client_calls = 1 /\ step.calls_before = 1
  /\ Len(user_visits) = 1

\* C7: for an event within the gate whose profile exists and whose
\* (user_id, shop_id) key is not cached, a 200 answer carrying a non-empty text
\* makes exactly one client call, stores the returned text under the key and
\* puts that non-empty text in the emitted EnrichedEvent.
C7_FirstSuccessCachesText ==
  (/\ Stepped /\ step.path = "profiled"
   /\ StepKey \notin DOMAIN step.cache_before
   /\ step.resp.kind = "ok" /\ step.resp.status = 200 /\ step.resp.message # <<>>)
    => /\ step.calls = 1 /\ client_calls = step.calls_before + 1
       /\ StepKey \in DOMAIN conn.message_cache
       /\ conn.message_cache[StepKey] # <<>>
       /\ DOMAIN conn.message_cache = DOMAIN step.cache_before \cup {StepKey}
       /\ (stage = "messaged" =>
             /\ NotificationText = conn.message_cache[StepKey]
             /\ NotificationText # <<>>)

C7_Witness ==
  /\ Emitted /\ step.path = "profiled" /\ step.distance = 120
  /\ step.user_id = 1 /\ step.shop_id = 1
  /\ StepKey \notin DOMAIN step.cache_before
  /\ step.calls = 1 /\ client_calls = 1
  /\ step.resp.message = <<"[", "Nome del Negozio", "]", "Sconto", "20", "%">>
  /\ NotificationText = <<"Bar Roma", "]", "Sconto", "20", "%">>
  /\ conn.message_cache[StepKey] = NotificationText

\* the categories of the weight table of _should_simulate_visit
WeightedCategories ==
  {"ristorante", "bar", "gelateria", "abbigliamento", "supermercato", "farmacia"}

\* C8: for every category (known, unknown or absent), age and discount content
\* of a non-blank text, _should_simulate_visit does not raise and compares the
\* draw with a probability in [0, 0.9]; for a category outside the weight table
\* that probability is the base plus the discount bonus (weight 1.0), capped.
C8_ProbabilityWithinBounds ==
  (sim.pc = "done" /\ ~IsBlank(sim.message))
    => /\ ~sim.raised
       /\ 0 <= sim.probability /\ sim.probability <= 900000
       /\ sim.result = (sim.draw < sim.probability)
       /\ (CategoryOf(sim.shop) \notin WeightedCategories
             => sim.probability = Min(300000 + DiscountBonus(sim.message), 900000))

C8_Witness ==
  /\ sim.pc = "done"
  /\ "category" \in DOMAIN sim.shop /\ sim.shop["category"] = "museo"
  /\ sim.message = <<"Sconto", "100", "%">>
  /\ sim.probability = 900000
  /\ sim.draw = 899999 /\ sim.result

\* texts that are empty or made of blanks only
BlankTexts == {m \in SimMessages : \A i \in 1..Len(m) : m[i] = " "}

\* C10: a row is added to user_visits only by a call in which the Visit
\* Simulation Engine decided "visit" on a non-blank text, and
\* _should_simulate_visit returns false for every empty or blank text, whatever
\* the profile, the shop and the draw.
C10_VisitOnlyWhenDecided ==
  /\ Stepped =>
       /\ Len(user_visits) = step.visits_before + step.visits
       /\ (step.visits > 0 => step.decided /\ step.path = "profiled")
       /\ (stage = "messaged" /\ (step.visits > 0 \/ MarkedVisited)
             => ~IsBlank(NotificationText))
  /\ \A m \in BlankTexts, u \in SimUsers, sh \in SimShops, d \in Draws :
       ~should_simulate_visit(u, sh, m, d)

C10_Witness ==
  /\ Emitted /\ step.decided /\ step.visits = 1
  /\ Len(user_visits) = 2
  /\ MarkedVisited
  /\ BlankTexts = {<<>>, <<" ">>, <<" ", " ">>}

\* C11 (as claimed): whenever the recorder is called (should_simulate returned
\* true) and the analytics store accepts the insert, exactly one SimulatedVisit
\* row is written, for every minute of the hour the visit starts in and every
\* duration of the shop category's range.
C11_AcceptedVisitIsRecorded ==
  (visit.pc = "done" /\ visit.rnd.insert_ok)
    => /\ visit.rows = 1
       /\ Len(user_visits) = 1

\* the recorder was called in the last step and wrote no row
VisitWriteFailed == Stepped /\ step.decided /\ step.visits = 0

\* C12: if writing the SimulatedVisit record fails, no exception leaves the
\* step: the EnrichedEvent is emitted with the generated (non-blank, cached)
\* notification text and one "error" notification is made.
C12_FailedVisitWriteStillEmits ==
  VisitWriteFailed
    => /\ ~step.raised
       /\ step.emitted = 1
       /\ step.errors = 1
       /\ Len(user_visits) = step.visits_before
       /\ (stage = "messaged" =>
             /\ ~IsBlank(NotificationText)
             /\ StepKey \in DOMAIN conn.message_cache
             /\ NotificationText = conn.message_cache[StepKey])

C12_Witness ==
  /\ Emitted /\ VisitWriteFailed
  /\ step.errors = 1 /\ conn.metrics.errors = 1
  /\ NotificationText = <<"Bar Roma", "]", "Sconto", "20", "%">>
  /\ user_visits = <<>>

\* C13 (as claimed): for every event and every failure of a collaborator, no
\* exception leaves enrich_with_nearest_shop, check_proximity_and_generate_message
\* or write_to_clickhouse, and the next event is processed.
C13_NoOperatorRaises ==
  /\ Stepped => ~step.raised
  /\ caller = "direct" => stage # "crashed"

\* C14: write_to_clickhouse calls the insert at most once; when the insert
\* fails it makes one "error" notification, adds no row and returns normally;
\* an insert the store accepts adds its row whatever failed before.
C14_SinkWritesAtMostOnce ==
  sink.kind = "write"
    => /\ sink.attempts <= 1
       /\ stage = "idle"
       /\ Len(user_events) = sink.events_before + sink.rows
       /\ (sink.rows = 0 => sink.errors = 1)
       /\ (sink.rows = 1 => sink.errors = 0)
       /\ (sink.attempts = 1 /\ sink.insert_ok => sink.rows = 1)
       /\ (sink.attempts = 1 /\ ~sink.insert_ok => sink.rows = 0)

C14_Witness ==
  /\ sink.kind = "write"
  /\ sink.failures_before = 1 /\ sink.events_before = 0
  /\ sink.attempts = 1 /\ sink.rows = 1
  /\ Len(user_events) = 1 /\ user_events[1].event_id = 1
  /\ conn.metrics.errors = 1

\* the event in flight has been received and has not reached a terminal state
InFlight == stage \in {"parsed", "enriched", "messaged"}

\* the processing of the last event ended Dropped (enrich emitted nothing)
Dropped == stage = "idle" /\ step.kind = "enrich" /\ step.emitted = 0

\* it ended Gated-out: stopped at the distance gate, nothing handed on
GatedOutEnd ==
  stage = "idle" /\ step.kind = "message" /\ step.path = "gated" /\ sink.kind = "none"

\* it ended Sunk: handed to the Sink Writer, which returned
Sunk == stage = "idle" /\ sink.kind = "write"

\* C15 (as claimed): every received event eventually reaches one of the
\* terminal states Dropped, Gated-out or Sunk, whatever the collaborators
\* answer.  The runtime runs every step that is enabled (FairSpec), so the
\* event reaches a terminal state iff it is in one whenever no step is left.
C15_EveryEventTerminates ==
  (ingested > 0 /\ ~ENABLED Process) => (Dropped \/ GatedOutEnd \/ Sunk)

\* C16 (as claimed): an event that ends Gated-out is not passed to the Sink
\* Writer: every event write_to_clickhouse is called with passed the distance gate.
C16_GatedOutNotSunk ==
  sink.kind = "write"
    => /\ "distance" \in DOMAIN sink.event
       /\ sink.event["distance"] <= 200

\* C16 (amended): every event check_proximity_and_generate_message emits, a
\* Gated-out one (emitted with empty notification text) included, is passed to
\* the Sink Writer; only a Dropped event, for which enrich_with_nearest_shop
\* emits no item, is not.
C16_OnlyDroppedSkipsSink ==
  /\ (step.kind = "enrich" /\ step.emitted = 0)
       => stage = "idle" /\ item = NoItem /\ sink.kind = "none"
  /\ (Stepped /\ step.path = "gated")
       => /\ step.emitted = 1
          /\ \/ stage = "messaged" /\ NotificationText = <<>>
             \/ /\ Sunk
                /\ sink.event["distance"] = step.distance
                /\ sink.event["poi_info"] = <<>>
  /\ (Stepped /\ ~step.raised)
       => \/ stage = "messaged"
          \/ Sunk /\ Get(sink.event, "shop_id", 0) = step.shop_id

C16_Witness ==
  /\ Sunk /\ Stepped /\ step.path = "gated"
  /\ sink.event["distance"] = 350
  /\ sink.rows = 1
  /\ Len(user_events) = 1 /\ user_events[1].poi_info = <<>>

\* C17: when the shop store is empty or unreachable, enrich_with_nearest_shop
\* emits no item (nothing is left in flight for generation or the sink), and an
\* unreachable store makes one "error" notification, an empty one none.
C17_NoShopNoItem ==
  (step.kind = "enrich" /\ step.res \in {"empty", "error"})
    => /\ step.emitted = 0
       /\ stage = "idle" /\ item = NoItem
       /\ sink.kind = "none"
       /\ step.errors = (IF step.res = "error" THEN 1 ELSE 0)

C17_Witness ==
  /\ step.kind = "enrich" /\ step.res = "error"
  /\ step.errors = 1 /\ step.emitted = 0
  /\ stage = "idle" /\ ingested = 2
  /\ Len(user_events) = 1 /\ client_calls = 1

\* the fields of a ShopMatch and of a PositionEvent
ShopFields == {"shop_id", "shop_name", "category", "distance"}

PositionFields == {"user_id", "latitude", "longitude", "timestamp"}

\* C18: when a nearest shop is found, enrich_with_nearest_shop emits exactly
\* one item with the key of the input, whose event carries the shop's shop_id,
\* shop_name, category and distance and the input's user_id, latitude,
\* longitude and timestamp unchanged.
C18_FoundShopMerged ==
  (step.kind = "enrich" /\ step.res = "found")
    => /\ step.emitted = 1
       /\ stage = "enriched"
       /\ item.key = step.key
       /\ ShopFields \cup PositionFields \subseteq DOMAIN item.event
       /\ \A f \in ShopFields : item.event[f] = step.shop[f]
       /\ \A f \in PositionFields : item.event[f] = step.event[f]

C18_Witness ==
  /\ step.kind = "enrich" /\ step.res = "found"
  /\ item.key = "2" /\ item.event["user_id"] = 2
  /\ item.event["distance"] = 200 /\ item.event["shop_name"] = <<"Farmacia Centrale">>
  /\ item.event["latitude"] = 454642
  /\ ingested = 2

\* C19 (as claimed): the result of Profile Lookup for an absent user differs
\* from its result when the store fails, so the result alone tells them apart.
C19_NotFoundDistinctFromError ==
  \A i, j \in 1..Len(lookups) :
    (lookups[i].kind = "missing" /\ lookups[j].kind = "error")
      => lookups[i].result # lookups[j].result

\* C20: notify(event_type, data) has, when it returns, called update once on
\* every observer registered when it was called, with that event type, in the
\* order in which the observers were attached, whichever of them raise.
C20_NotifyReachesAllInOrder ==
  (bus.pc = "ready" /\ bus.last.kind = "notify")
    => LET d == bus.last.deliveries
           since == bus.last.since
       IN  /\ \A o \in DOMAIN since :
                Cardinality({i \in 1..Len(d) : d[i].observer = o}) = 1
           /\ \A i \in 1..Len(d) :
                d[i].observer \in DOMAIN since /\ d[i].event_type = bus.last.event_type
           /\ \A i, j \in 1..Len(d) :
                i < j => since[d[i].observer] < since[d[j].observer]

C20_Witness ==
  /\ bus.pc = "ready" /\ bus.last.kind = "notify"
  /\ Len(bus.last.deliveries) = 3
  /\ bus.last.deliveries[1].observer = "performance" /\ bus.last.deliveries[1].raised
  /\ bus.last.deliveries[2].observer = "audit"
  /\ bus.last.deliveries[3].observer = "metrics"

\* C21: when an observer's update raises during notify, every observer
\* registered after it is still called with that notification, and notify
\* returns to its caller without an exception.
C21_RaisingListenerDoesNotStopNotify ==
  (bus.pc = "ready" /\ bus.last.kind = "notify")
    => LET d == bus.last.deliveries
           since == bus.last.since
       IN  /\ bus.last.returned
           /\ \A i \in 1..Len(d) :
                d[i].raised =>
                  \A o \in DOMAIN since :
                    since[o] > since[d[i].observer]
                      => \E j \in (i + 1)..Len(d) :
                           d[j].observer = o /\ d[j].event_type = bus.last.event_type

C21_Witness ==
  /\ bus.pc = "ready" /\ bus.last.kind = "notify" /\ bus.last.returned
  /\ Len(bus.last.deliveries) = 3
  /\ bus.last.deliveries[1].raised
  /\ bus.last.deliveries[2].raised
  /\ ~bus.last.deliveries[3].raised

\* C22: each getter of the registry (get_pg_pool, get_ch_client,
\* get_http_client) constructs its handle on its first successful call and
\* returns that same handle on every later call: a call that finds the handle
\* set does not run the constructor, and the constructor succeeds once.
C22_GettersMemoize ==
  (reg.pc = "ready" /\ reg.last.kind = "get" /\ ~reg.last.raised)
    => /\ reg.last.returned # NoHandle
       /\ reg.last.returned = reg.first[reg.last.getter]
       /\ reg.last.returned = HandleOf(reg.cls.self, reg.last.getter)
       /\ reg.built[reg.last.getter] = 1
       /\ reg.last.before # NoHandle => ~reg.last.constructed

C22_Witness ==
  /\ reg.pc = "ready" /\ reg.last.kind = "get" /\ ~reg.last.raised
  /\ reg.last.getter = "get_ch_client"
  /\ reg.last.before # NoHandle
  /\ ~reg.last.ok
  /\ reg.last.returned = reg.first["get_ch_client"]

\* C23: when the constructor of a handle raises, the getter raises to its
\* caller and leaves the handle unset, and the call of the getter that
\* follows a failed one runs the constructor again.
C23_FailedConstructionNotMemoized ==
  (reg.pc = "ready" /\ reg.last.kind = "get")
    => /\ (reg.last.constructed /\ ~reg.last.ok)
            => /\ reg.last.raised
               /\ reg.last.returned = NoHandle
               /\ HandleOf(reg.cls.self, reg.last.getter) = NoHandle
       /\ reg.last.after_failure
            => /\ reg.last.before = NoHandle
               /\ reg.last.constructed
               /\ reg.last.ok => (~reg.last.raised /\ reg.last.returned # NoHandle)

C23_Witness ==
  /\ reg.pc = "ready" /\ reg.last.kind = "get"
  /\ reg.last.getter = "get_http_client"
  /\ reg.last.after_failure
  /\ reg.last.constructed /\ reg.last.ok
  /\ reg.last.returned = HandleOf(reg.cls.self, "get_http_client")
  /\ reg.last.returned # NoHandle

\* C24: every DatabaseConnections() and every get_db_connections() returns
\* the one instance, and a construction after the first leaves the instance's
\* message cache, its handles and its observer list as they were.
C24_SingletonConstructionIsIdempotent ==
  (reg.pc = "ready" /\ reg.last.kind = "construct")
    => /\ reg.last.returned = 1
       /\ reg.cls.instance = 1
       /\ reg.cls.created = 1
       /\ reg.cls.self = reg.last.self_before
       /\ Len(reg.cls.self.observers) = Len(reg.last.self_before.observers)

C24_Witness ==
  /\ reg.pc = "ready" /\ reg.last.kind = "construct"
  /\ reg.last.how = "get_db_connections"
  /\ reg.last.returned = 1
  /\ DOMAIN reg.cls.self.message_cache # {}
  /\ reg.cls.self.ch_client # NoHandle
  /\ Len(reg.cls.self.observers) = 3

\* the last call stored a text: the service answered 200 with a readable body
WroteCache ==
  step.calls = 1 /\ step.resp.kind = "ok" /\ step.resp.status = 200

\* C25: cache entries are write-once: a key that was in the cache before a
\* call is not written by the call, and every entry the cache held before the
\* call is still there with the same text after it.
C25_CacheEntriesWriteOnce ==
  (Stepped /\ step.path = "profiled")
    => \A k \in DOMAIN step.cache_before :
         /\ k \in DOMAIN conn.message_cache
         /\ conn.message_cache[k] = step.cache_before[k]
         /\ ~(k = StepKey /\ WroteCache)

\* C26: get_cached_message(user_id, shop_id) returns a text only if
\* cache_message stored one under exactly that pair, and then the text of
\* that pair; a pair never stored is a miss, whatever the other pairs hold.
C26_LookupReturnsOnlyOwnPair ==
  (reg.pc = "cache" /\ reg.last.kind = "lookup")
    => LET pair == <<reg.last.user_id, reg.last.shop_id>>
       IN  /\ reg.last.found
                => (pair \in DOMAIN reg.stored /\ reg.last.value = reg.stored[pair])
           /\ pair \notin DOMAIN reg.stored => ~reg.last.found

C26_Witness ==
  /\ reg.pc = "cache" /\ reg.last.kind = "lookup"
  /\ reg.last.user_id = 11 /\ reg.last.shop_id = 2
  /\ ~reg.last.found
  /\ <<1, 12>> \in DOMAIN reg.stored
  /\ <<11, 12>> \in DOMAIN reg.stored
  /\ <<1, 2>> \in DOMAIN reg.stored

\* both deliveries of the redelivered message have produced an EnrichedEvent
Redelivered ==
  /\ redelivery.kind = "again" /\ stage = "idle" /\ sink.kind = "write"
  /\ sink.event["_offset"] = redelivery.first["_offset"]

\* the fields that tell whether a visit was simulated
VisitedFields == {"visited_shop", "visited_shop_id"}

\* C27 (as claimed): processing the same PositionEvent twice produces
\* EnrichedEvents equal in every field except the visited ones, whatever the
\* collaborators answer on the two runs.
C27_RedeliverySameContent ==
  Redelivered
    => /\ DOMAIN sink.event \ VisitedFields = DOMAIN redelivery.first \ VisitedFields
       /\ \A f \in DOMAIN sink.event \ VisitedFields :
            sink.event[f] = redelivery.first[f]

\* the resolver found the same shop on both deliveries
SameShop == \A f \in ShopFields : sink.event[f] = redelivery.first[f]

\* C27 (amended): processing the same PositionEvent twice produces
\* EnrichedEvents equal in every field except the visited ones when the
\* resolver finds the same shop, the profile lookup gives the same outcome on
\* both runs and, if the first run generated a text, that text was not empty.
C27_RedeliverySameContentOnSameAnswers ==
  (/\ Redelivered
   /\ SameShop
   /\ step.path = redelivery.path
   /\ step.path = "profiled" => redelivery.first["poi_info"] # <<>>)
    => /\ DOMAIN sink.event \ VisitedFields = DOMAIN redelivery.first \ VisitedFields
       /\ \A f \in DOMAIN sink.event \ VisitedFields :
            sink.event[f] = redelivery.first[f]

C27_Witness ==
  /\ Redelivered
  /\ SameShop
  /\ step.path = "profiled" /\ redelivery.path = "profiled"
  /\ redelivery.first["poi_info"] # <<>>
  /\ sink.event["poi_info"] = redelivery.first["poi_info"]
  /\ step.calls = 0
  /\ redelivery.first["visited_shop"] /\ ~sink.event["visited_shop"]

\* C28: events of the same user are processed in ingestion order: of two
\* finished events of one user, the one produced first was started first;
\* and on one worker an event has finished all its steps before the next one
\* of that worker's partition starts.
C28_PerUserIngestionOrder ==
  workers.pc = "running"
    => \A i, j \in 1..Len(workers.done) :
         LET a == workers.done[i]
             b == workers.done[j]
         IN  /\ (a.user_id = b.user_id /\ a.offset < b.offset)
                  => a.start < b.start
             /\ (a.worker = b.worker /\ a.start < b.start) => a.finish <= b.start

\* C29: two events with the same (user_id, shop_id) are never processed on
\* different workers, so one dedup cache sees every read and write of the key.
C29_SameKeySameWorker ==
  workers.pc = "running"
    => \A i, j \in 1..Len(workers.done) :
         LET a == workers.done[i]
             b == workers.done[j]
         IN  (a.user_id = b.user_id /\ a.shop_id = b.shop_id /\ a.shop_id # 0)
               => a.worker = b.worker

\* C30: for an event within the distance gate whose profile lookup gives no
\* profile (the user is absent or the lookup failed), the generation client is
\* not invoked, no visit row is written, and the event is emitted with empty
\* notification text and visited_shop = FALSE.
C30_NoProfileNoMessageNoVisit ==
  (Stepped /\ step.path = "no_profile")
    => /\ step.profile \in {"missing", "error"}
       /\ step.has_distance /\ step.distance <= MAX_POI_DISTANCE
       /\ step.calls = 0 /\ client_calls = step.calls_before
       /\ step.visits = 0 /\ Len(user_visits) = step.visits_before
       /\ ~step.decided /\ ~step.raised
       /\ step.emitted = 1
       /\ conn.message_cache = step.cache_before
       /\ stage = "messaged"
            => /\ NotificationText = <<>>
               /\ "visited_shop" \in DOMAIN item.event
               /\ item.event["visited_shop"] = FALSE
               /\ "visited_shop_id" \notin DOMAIN item.event

C30_Witness ==
  /\ Emitted /\ step.path = "no_profile"
  /\ step.profile = "error"
  /\ StepKey \in DOMAIN step.cache_before
  /\ step.cache_before[StepKey] # <<>>
  /\ NotificationText = <<>>
  /\ item.event["visited_shop"] = FALSE

\* C31: the distance gate stops exactly the events whose distance is above
\* 200 m or that carry no distance: an event at 200 m or less goes on to the
\* profile lookup, every other event is passed on with empty text and neither
\* the profile lookup's outcome nor the generation client is used.
C31_GateAtMost200 ==
  Stepped
    => /\ step.path = "gated" <=> ~(step.has_distance /\ step.distance <= 200)
       /\ step.path = "gated" => (step.profile = "none" /\ step.calls = 0)
       /\ step.path # "gated" => step.profile \in {"found", "missing", "error"}

C31_Witness ==
  /\ Emitted /\ ~step.has_distance
  /\ step.path = "gated"
  /\ NotificationText = <<>>
  /\ "distance" \notin DOMAIN item.event

\* a direct call of _generate_message that took the status-200 branch
GeneratedFromClient ==
  /\ reg.pc = "generate"
  /\ reg.last.kind = "generate"
  /\ reg.last.success

\* an unresolved template placeholder: a "{shop_name}" or "{name}" token, or a
\* "[" with a "]" after it
HasPlaceholder(text) ==
  \/ \E i \in 1..Len(text) : text[i] \in {"{shop_name}", "{name}"}
  \/ \E i \in 1..Len(text) : \E j \in (i + 1)..Len(text) :
       text[i] = "[" /\ text[j] = "]"

\* C32: every text that _generate_message returns from a successful client
\* response, and stores in the cache, contains no unresolved template
\* placeholder, whatever the response text and the shop name
C32_NoUnresolvedPlaceholder ==
  GeneratedFromClient
    => /\ ~HasPlaceholder(reg.last.message)
       /\ \A k \in DOMAIN conn.message_cache :
            k = get_cache_key(reg.last.user_id, reg.last.shop_id)
              => ~HasPlaceholder(conn.message_cache[k])

\* C33: on every path through each operator a "processing_start" for an event
\* id is followed by the "processing_end" for the same id before the operator is
\* left, so PerformanceObserver.start_times holds no entry once an operator
\* has run
C33_StartFollowedByEnd ==
  conn.perf.start_times = {}

\* C34: after any sequence of _generate_message calls the counters satisfy
\* messages_generated <= cache_misses, and a call that reported a cache hit
\* never reaches the generation client
C34_GeneratedOnlyOnMiss ==
  reg.pc = "generate"
    => /\ conn.metrics.messages_generated <= conn.metrics.cache_misses
       /\ (reg.last.kind = "generate" /\ reg.last.hit => ~reg.last.invoked)

\* C35 (as claimed): an EnrichedEvent is marked visited only if the
\* SimulatedVisit record for that event was actually written to the analytics
\* store
C35_VisitedOnlyIfRecorded ==
  (Emitted /\ MarkedVisited) => step.visits = 1

\* C35 (amended): an EnrichedEvent is marked visited exactly when the visit was
\* decided and the recorder called for it, whether or not the record was
\* written; a record is written, and visits_simulated incremented, only for an
\* event that is marked visited, so visits_simulated never exceeds the number of
\* events marked visited
C35_VisitedIffRecorderCalled ==
  /\ conn.metrics.visits_simulated = Len(user_visits)
  /\ Emitted
       => /\ MarkedVisited <=> step.decided
          /\ step.visits <= 1
          /\ step.visits = 1 => MarkedVisited
          /\ Len(user_visits) = step.visits_before + step.visits

C35_Witness ==
  /\ Emitted /\ MarkedVisited
  /\ step.decided /\ step.visits = 0
  /\ step.errors = 1
  /\ conn.metrics.visits_simulated = 0

\* C36: the visit_id of a SimulatedVisit is unique: no two rows the recorder
\* wrote to user_visits, in any sequence of visits, carry the same visit_id
C36_VisitIdUnique ==
  \A i \in 1..Len(user_visits) : \A j \in 1..Len(user_visits) :
    i # j => user_visits[i].visit_id # user_visits[j].visit_id

\* the last message read failed parsing, or its value has no user_id
Rejectable ==
  /\ reg.pc = "consume"
  /\ reg.last.kind = "message"
  /\ \/ Unparseable(reg.last.msg)
     \/ reg.last.msg.kind = "absent"
     \/ "user_id" \notin DOMAIN reg.last.msg.value

\* an item of the last message is at, or has been through, enrich_shop,
\* generate_msg or write_clickhouse
InLaterStage ==
  \/ stage \in {"parsed", "enriched", "messaged", "crashed"}
  \/ step # NoStep
  \/ sink.kind # "none"

\* C37: a message that fails parsing, or whose value has no user_id, never
\* reaches enrich_shop, generate_msg or write_clickhouse; every item that does
\* reach them is keyed by str(user_id) of its message
C37_InvalidMessagesFiltered ==
  reg.pc = "consume"
    => /\ Rejectable => (~InLaterStage /\ item = NoItem /\ ~reg.last.passed)
       /\ InLaterStage
            => /\ reg.last.kind = "message"
               /\ reg.last.passed
               /\ "user_id" \in DOMAIN reg.last.msg.value
               /\ reg.last.key = (IF reg.last.msg.text_id
                                  THEN reg.last.msg.value["user_id"]
                                  ELSE KeyOf(reg.last.msg.value["user_id"]))
               /\ (stage # "idle" => item.key = reg.last.key)

C37_Witness ==
  /\ Rejectable
  /\ reg.last.msg.kind = "bytes_json_dict"
  /\ reg.last.key = "unknown"
  /\ ingested = 2
  /\ Len(user_events) = 1
  /\ stage = "idle"

\* C38: the message generator's in-memory cache never holds more than its
\* declared maximum of 1000 messages after any sequence of cache_message calls
C38_CacheNeverExceedsMaximum ==
  svc.pc = "cache" => Len(svc.cache) <= CACHE_MAX_SIZE

\* C39: create_cache("auto") returns a RedisCache only when the Redis
\* connection works, and a MemoryCache whenever Redis is unavailable
C39_AutoFallsBackToMemory ==
  svc.pc = "factory"
    => \A i \in 1..Len(svc.calls) :
         svc.calls[i].cache_type = "auto"
           => /\ svc.calls[i].cache.class = "RedisCache" => svc.calls[i].redis = "up"
              /\ svc.calls[i].redis = "down" => svc.calls[i].cache.class = "MemoryCache"

====
